---- MODULE Spec2Model ----
(***************************************************************************)
(* LiveRef: the checkpoint trace recorder (CheckpointRecorder), the        *)
(* runtime hooks of the worker that drive it, and the replay engine        *)
(* (getStateAt).                                                           *)
(*                                                                         *)
(* JavaScript values are modelled as strings: object identities "A".."D"   *)
(* and the primitives "1", "NaN", "10n" (a bigint) and "null".  ObjIds are *)
(* the strings "o1", "o2", ...  Arrays of the program (steps, events,      *)
(* snapshots) are sequences; index i of the program is index i+1 here.     *)
(***************************************************************************)
EXTENDS Integers, Sequences, FiniteSets, TLC

(***************************************************************************)
(* Bounds of the model.                                                    *)
(***************************************************************************)
MaxObjs == 2
MaxEvents == 3
MaxSteps == 2
MaxSnapshotEvery == 2
MaxReplayEvents == 2
MaxGets == 2
MaxWorkerEvents == 1
MaxRuns == 2
MaxCallEvents == 2
MaxEdits == 2
MaxEditorRuns == 3

(***************************************************************************)
(* Input domains.                                                          *)
(***************************************************************************)
IdentNames == <<"A", "B", "C", "D">>
Idents == {IdentNames[i] : i \in 1..MaxObjs}
Prims == {"1", "NaN", "10n"}
RuntimeValues == Idents \cup Prims
Names == {"a", "b"}
NameOrder == <<"a", "b", "f", "g", "it", "o", "p", "q", "r", "s1", "s2", "t", "x", "y">>
Keys == {"x"}
CheckpointIds == {"L1:1"}
ObjIdNames == <<"o1", "o2", "o3", "o4", "o5", "o6">>

\* The values of the traced programs: further primitives, the identities of
\* the objects and arrays in order of creation, and the identity and the
\* name of each declared function.
ProgramPrims == {"2", "true", "false", "undefined"}
ObjectIdents == <<"A", "A2", "A3">>
ArrayIdents == <<"B", "B2">>
FunctionIdent == [f |-> "fn_f", g |-> "fn_g", s1 |-> "fn_s1", s2 |-> "fn_s2"]
FunctionName == [fn_f |-> "f", fn_g |-> "g", fn_s1 |-> "s1", fn_s2 |-> "s2"]
Range(seq) == {seq[i] : i \in 1..Len(seq)}

ObjIdOf(n) == ObjIdNames[n]

(***************************************************************************)
(* Finite maps (JavaScript objects used as dictionaries).                  *)
(***************************************************************************)
EmptyMap == [k \in {} |-> k]
Put(f, k, v) == [x \in (DOMAIN f) \cup {k} |-> IF x = k THEN v ELSE f[x]]
Remove(f, k) == [x \in (DOMAIN f) \ {k} |-> f[x]]

EmptyState == [objects |-> EmptyMap, roots |-> EmptyMap, lastWrite |-> EmptyMap]

(***************************************************************************)
(* JSON.parse(JSON.stringify(x)) on a HeapState: NaN is written as null,   *)
(* a bigint makes JSON.stringify throw a TypeError, every other value of   *)
(* the model survives unchanged.                                           *)
(***************************************************************************)
JsonPrim(p) == IF p = "NaN" THEN "null" ELSE p

JsonValueRef(ref) ==
  IF ref.kind = "prim" THEN [kind |-> "prim", v |-> JsonPrim(ref.v)] ELSE ref

JsonThrows(s) ==
  \/ \E n \in DOMAIN s.roots : s.roots[n].kind = "prim" /\ s.roots[n].v = "10n"
  \/ \E o \in DOMAIN s.objects : \E k \in DOMAIN s.objects[o].props :
        s.objects[o].props[k].kind = "prim" /\ s.objects[o].props[k].v = "10n"

JsonRoundTrip(s) ==
  [objects |-> [o \in DOMAIN s.objects |->
                  [s.objects[o] EXCEPT !.props =
                     [k \in DOMAIN s.objects[o].props |-> JsonValueRef(s.objects[o].props[k])]]],
   roots |-> [n \in DOMAIN s.roots |-> JsonValueRef(s.roots[n])],
   lastWrite |-> s.lastWrite]

deepClone(s) == [threw |-> JsonThrows(s), value |-> JsonRoundTrip(s)]

lwKey(obj, key) == <<obj, key>>
rootWriteKey(name) == <<"root", name>>

(***************************************************************************)
(* CheckpointRecorder.  A recorder is a record r; every method is an       *)
(* operator from the recorder before the call to the recorder after it.    *)
(***************************************************************************)
NewRecorder(snapshotEveryNSteps) ==
  [stepId |-> 0,
   stepStartEventIndex |-> 0,
   snapshotEvery |-> IF snapshotEveryNSteps > 1 THEN snapshotEveryNSteps ELSE 1,
   state |-> EmptyState,
   trace |-> [steps |-> << [stepId |-> 0, checkpointId |-> "__init__", varNames |-> <<>>,
                            deltaFrom |-> 0, deltaTo |-> 0] >>,
              events |-> <<>>,
              snapshots |-> << [at |-> 0, state |-> deepClone(EmptyState).value] >>,
              callEvents |-> <<>>],
   callIdSeq |-> 1,
   objIdMap |-> EmptyMap,
   objIdSeq |-> 1]

pushEvent(r, e) == [r EXCEPT !.trace.events = Append(@, e)]

alloc(r, obj, objKind, className) ==
  LET r1 == IF obj \notin DOMAIN r.state.objects
            THEN [r EXCEPT !.state.objects =
                    Put(@, obj, [id |-> obj, objKind |-> objKind, className |-> className,
                                 props |-> EmptyMap])]
            ELSE r
  IN pushEvent(r1, [t |-> "alloc", obj |-> obj, objKind |-> objKind, className |-> className])

\* ensureObjId assigning the new ObjId without emitting its alloc.
ensureObjId_noAlloc(r, o, kind, className) ==
  IF o \in DOMAIN r.objIdMap
  THEN [rec |-> r, id |-> r.objIdMap[o]]
  ELSE LET id == ObjIdOf(r.objIdSeq)
       IN [rec |-> [r EXCEPT !.objIdSeq = @ + 1, !.objIdMap = Put(@, o, id)], id |-> id]

\* ensureObjId without the lookup: every call assigns a new ObjId.
ensureObjId_alwaysNew(r, o, kind, className) ==
  LET id == ObjIdOf(r.objIdSeq)
      r1 == [r EXCEPT !.objIdSeq = @ + 1, !.objIdMap = Put(@, o, id)]
  IN [rec |-> alloc(r1, id, kind, className), id |-> id]

ensureObjId(r, o, kind, className) ==
  IF o \in DOMAIN r.objIdMap
  THEN [rec |-> r, id |-> r.objIdMap[o]]
  ELSE LET id == ObjIdOf(r.objIdSeq)
           r1 == [r EXCEPT !.objIdSeq = @ + 1, !.objIdMap = Put(@, o, id)]
       IN [rec |-> alloc(r1, id, kind, className), id |-> id]

\* typeof v and the classification of object-likes: "A" is a plain object,
\* "B" an array, "C" a function named f, "D" a class constructor named K.
toValueRef(r, v) ==
  IF v \in Prims \cup ProgramPrims \cup {"null"}
  THEN [rec |-> r, ref |-> [kind |-> "prim", v |-> v]]
  ELSE LET e == CASE v = "C" -> ensureObjId(r, v, "function", "f")
                  [] v = "D" -> ensureObjId(r, v, "class", "K")
                  [] v \in Range(ArrayIdents) -> ensureObjId(r, v, "array", "Array")
                  [] v \in DOMAIN FunctionName ->
                       ensureObjId(r, v, "function", FunctionName[v])
                  [] OTHER   -> ensureObjId(r, v, "object", "Object")
       IN [rec |-> e.rec, ref |-> [kind |-> "obj", id |-> e.id]]

\* write without the early return: the event and lastWrite are recorded even
\* when obj names no live object.
write_unguarded(r, obj, key, val, checkpointId) ==
  pushEvent(
    [r EXCEPT !.state.objects =
                [o \in DOMAIN @ |-> IF o = obj THEN [@[o] EXCEPT !.props = Put(@, key, val)]
                                    ELSE @[o]],
              !.state.lastWrite = Put(@, lwKey(obj, key),
                                      [stepId |-> r.stepId, checkpointId |-> checkpointId])],
    [t |-> "write", obj |-> obj, key |-> key, val |-> val, checkpointId |-> checkpointId])

write(r, obj, key, val, checkpointId) ==
  IF obj \notin DOMAIN r.state.objects
  THEN r
  ELSE pushEvent(
         [r EXCEPT !.state.objects[obj].props = Put(@, key, val),
                   !.state.lastWrite = Put(@, lwKey(obj, key),
                                           [stepId |-> r.stepId, checkpointId |-> checkpointId])],
         [t |-> "write", obj |-> obj, key |-> key, val |-> val, checkpointId |-> checkpointId])

del(r, obj, key, checkpointId) ==
  IF obj \notin DOMAIN r.state.objects
  THEN r
  ELSE pushEvent(
         [r EXCEPT !.state.objects[obj].props = Remove(@, key),
                   !.state.lastWrite = Put(@, lwKey(obj, key),
                                           [stepId |-> r.stepId, checkpointId |-> checkpointId])],
         [t |-> "delete", obj |-> obj, key |-> key, checkpointId |-> checkpointId])

rootSet(r, name, val, checkpointId) ==
  pushEvent(
    [r EXCEPT !.state.roots = Put(@, name, val),
              !.state.lastWrite = Put(@, rootWriteKey(name),
                                      [stepId |-> r.stepId, checkpointId |-> checkpointId])],
    [t |-> "rootSet", name |-> name, val |-> val, checkpointId |-> checkpointId])

rootDel(r, name, checkpointId) ==
  pushEvent(
    [r EXCEPT !.state.roots = Remove(@, name),
              !.state.lastWrite = Put(@, rootWriteKey(name),
                                      [stepId |-> r.stepId, checkpointId |-> checkpointId])],
    [t |-> "rootDel", name |-> name, checkpointId |-> checkpointId])

\* Object.keys(roots).sort()
SortedNames(S) == SelectSeq(NameOrder, LAMBDA n : n \in S)

\* checkpointStep keeping only the latest snapshot instead of appending it.
checkpointStep_keepLatest(r, checkpointId) ==
  LET meta == [stepId |-> r.stepId, checkpointId |-> checkpointId,
               varNames |-> SortedNames(DOMAIN r.state.roots),
               deltaFrom |-> r.stepStartEventIndex, deltaTo |-> Len(r.trace.events)]
      r1 == IF r.stepId = 0 /\ Len(r.trace.steps) = 1
               /\ r.trace.steps[1].checkpointId = "__init__"
            THEN [r EXCEPT !.trace.steps[1] = meta]
            ELSE [r EXCEPT !.trace.steps = Append(@, meta)]
      due == (r.stepId + 1) % r.snapshotEvery = 0
      c == deepClone(r1.state)
  IN IF due /\ c.threw
     THEN [rec |-> r1, threw |-> TRUE]
     ELSE LET r2 == IF due
                    THEN [r1 EXCEPT !.trace.snapshots =
                            << [at |-> r1.stepId, state |-> c.value] >>]
                    ELSE r1
          IN [rec |-> [r2 EXCEPT !.stepId = @ + 1,
                                 !.stepStartEventIndex = Len(r2.trace.events)],
              threw |-> FALSE]

\* The result says whether the call threw (deepClone on a bigint); the
\* assignments made before the throw stay.
checkpointStep(r, checkpointId) ==
  LET meta == [stepId |-> r.stepId, checkpointId |-> checkpointId,
               varNames |-> SortedNames(DOMAIN r.state.roots),
               deltaFrom |-> r.stepStartEventIndex, deltaTo |-> Len(r.trace.events)]
      r1 == IF r.stepId = 0 /\ Len(r.trace.steps) = 1
               /\ r.trace.steps[1].checkpointId = "__init__"
            THEN [r EXCEPT !.trace.steps[1] = meta]
            ELSE [r EXCEPT !.trace.steps = Append(@, meta)]
      due == (r.stepId + 1) % r.snapshotEvery = 0
      c == deepClone(r1.state)
  IN IF due /\ c.threw
     THEN [rec |-> r1, threw |-> TRUE]
     ELSE LET r2 == IF due
                    THEN [r1 EXCEPT !.trace.snapshots =
                            Append(@, [at |-> r1.stepId, state |-> c.value])]
                    ELSE r1
          IN [rec |-> [r2 EXCEPT !.stepId = @ + 1,
                                 !.stepStartEventIndex = Len(r2.trace.events)],
              threw |-> FALSE]

\* callEnter / callExit that also close the current step counter value.
pushCallEvent_advancesStep(r, kind, fnName, checkpointId) ==
  [r EXCEPT !.trace.callEvents =
              Append(@, [callId |-> r.callIdSeq, kind |-> kind, fnName |-> fnName,
                         stepId |-> r.stepId, checkpointId |-> checkpointId]),
            !.callIdSeq = @ + 1,
            !.stepId = @ + 1]

pushCallEvent(r, kind, fnName, checkpointId) ==
  [r EXCEPT !.trace.callEvents =
              Append(@, [callId |-> r.callIdSeq, kind |-> kind, fnName |-> fnName,
                         stepId |-> r.stepId, checkpointId |-> checkpointId]),
            !.callIdSeq = @ + 1]

callEnter(r, fnName, checkpointId) == pushCallEvent(r, "enter", fnName, checkpointId)

callExit(r, fnName, checkpointId) == pushCallEvent(r, "exit", fnName, checkpointId)

(***************************************************************************)
(* Replay engine (trace/replay.ts).                                        *)
(***************************************************************************)
\* cloneState returning its argument: the working copy is the snapshot itself.
cloneState_shared(s) == [fresh |-> FALSE, threw |-> FALSE, value |-> s]

\* A fresh object holding the JSON round trip of s.  "fresh" says that the
\* result shares no structure with s: writes to it do not reach s.
cloneState(s) == [fresh |-> TRUE, threw |-> JsonThrows(s), value |-> JsonRoundTrip(s)]

lastWriteKey(obj, key) == <<obj, key>>

applyEvent(state, e, stepId) ==
  CASE e.t = "alloc" ->
         IF e.obj \notin DOMAIN state.objects
         THEN [state EXCEPT !.objects =
                 Put(@, e.obj, [id |-> e.obj, objKind |-> e.objKind,
                                className |-> e.className, props |-> EmptyMap])]
         ELSE state
    [] e.t = "write" ->
         IF e.obj \notin DOMAIN state.objects
         THEN state
         ELSE [state EXCEPT !.objects[e.obj].props = Put(@, e.key, e.val),
                            !.lastWrite = Put(@, lastWriteKey(e.obj, e.key),
                                              [stepId |-> stepId, checkpointId |-> e.checkpointId])]
    [] e.t = "delete" ->
         IF e.obj \notin DOMAIN state.objects
         THEN state
         ELSE [state EXCEPT !.objects[e.obj].props = Remove(@, e.key),
                            !.lastWrite = Put(@, lastWriteKey(e.obj, e.key),
                                              [stepId |-> stepId, checkpointId |-> e.checkpointId])]
    [] e.t = "rootSet" ->
         [state EXCEPT !.roots = Put(@, e.name, e.val),
                       !.lastWrite = Put(@, rootWriteKey(e.name),
                                         [stepId |-> stepId, checkpointId |-> e.checkpointId])]
    [] e.t = "rootDel" ->
         [state EXCEPT !.roots = Remove(@, e.name),
                       !.lastWrite = Put(@, rootWriteKey(e.name),
                                         [stepId |-> stepId, checkpointId |-> e.checkpointId])]
    [] OTHER -> state

\* The loop of findSnapshot over trace.snapshots from position i on; best and
\* the result are positions in trace.snapshots, 0 stands for undefined.
RECURSIVE findSnapshotLoop(_, _, _, _)
findSnapshotLoop(snapshots, stepId, i, best) ==
  IF i > Len(snapshots)
  THEN best
  ELSE findSnapshotLoop(snapshots, stepId, i + 1,
         IF snapshots[i].at <= stepId /\ snapshots[i].at >= snapshots[best].at
         THEN i ELSE best)

findSnapshot(trace, stepId) ==
  IF Len(trace.snapshots) = 0
  THEN 0
  ELSE findSnapshotLoop(trace.snapshots, stepId, 1, 1)

\* for (let i = meta.deltaFrom; i < meta.deltaTo; i++) applyEvent(state, trace.events[i], s)
RECURSIVE applyDelta(_, _, _, _, _)
applyDelta(state, events, i, deltaTo, s) ==
  IF i >= deltaTo
  THEN [raised |-> FALSE, state |-> state]
  ELSE IF i + 1 \notin DOMAIN events
       THEN [raised |-> TRUE, state |-> state]
       ELSE applyDelta(applyEvent(state, events[i + 1], s), events, i + 1, deltaTo, s)

\* The step loop without "if (!meta) continue": reading meta.deltaFrom of a
\* missing step raises a TypeError.
RECURSIVE replaySteps_noSkip(_, _, _, _)
replaySteps_noSkip(trace, state, s, stepId) ==
  IF s > stepId
  THEN [raised |-> FALSE, state |-> state]
  ELSE IF s + 1 \notin DOMAIN trace.steps
       THEN [raised |-> TRUE, state |-> state]
       ELSE LET meta == trace.steps[s + 1]
                a == applyDelta(state, trace.events, meta.deltaFrom, meta.deltaTo, s)
            IN IF a.raised THEN a ELSE replaySteps_noSkip(trace, a.state, s + 1, stepId)

\* for (let s = snap.at; s <= stepId; s++) { const meta = trace.steps[s]; if (!meta) continue; ... }
RECURSIVE replaySteps(_, _, _, _)
replaySteps(trace, state, s, stepId) ==
  IF s > stepId
  THEN [raised |-> FALSE, state |-> state]
  ELSE IF s + 1 \notin DOMAIN trace.steps
       THEN replaySteps(trace, state, s + 1, stepId)
       ELSE LET meta == trace.steps[s + 1]
                a == applyDelta(state, trace.events, meta.deltaFrom, meta.deltaTo, s)
            IN IF a.raised THEN a ELSE replaySteps(trace, a.state, s + 1, stepId)

\* The returned state, whether the call raised, and the trace as the call
\* leaves it: when the working copy is not fresh, the loop writes into the
\* snapshot it started from.
getStateAt(trace, stepId) ==
  LET snap == findSnapshot(trace, stepId)
  IN IF snap = 0
     THEN [raised |-> TRUE, state |-> EmptyState, trace |-> trace]
     ELSE LET c == cloneState(trace.snapshots[snap].state)
              res == replaySteps(trace, c.value, trace.snapshots[snap].at, stepId)
          IN IF c.threw
             THEN [raised |-> TRUE, state |-> EmptyState, trace |-> trace]
             ELSE [raised |-> res.raised, state |-> res.state,
                   trace |-> IF c.fresh THEN trace
                             ELSE [trace EXCEPT !.snapshots[snap].state = res.state]]

(***************************************************************************)
(* The worker's api.run (runner.worker.ts): it installs the console proxy  *)
(* and the hooks on globalThis, builds the recorder, instruments and runs  *)
(* the program inside try, builds the RunResult in try or catch, and       *)
(* restores the bindings in finally.  A binding of globalThis is           *)
(* "undefined", "prior" (a value bound before the run), "consoleProxy" or  *)
(* "hook" (a closure of the run).                                          *)
(***************************************************************************)
HookNames == {"__checkpoint", "__val", "__writeProp", "__deleteProp",
              "__setVar", "__deleteVar", "__callEnter", "__callExit"}
GlobalNames == HookNames \cup {"console"}

\* A global of the worker that is not a hook: the traced program can define it.
ProgramGlobals == {"counter"}

\* globalThis with exactly the names in bound bound before the run.
GlobalsWith(bound) ==
  [b \in GlobalNames \cup ProgramGlobals |-> IF b \in bound THEN "prior" ELSE "undefined"]

\* The sets of names bound before a run that the model starts from: a new
\* worker (console only), nothing, some hooks, every name.
PriorBindings == {{"console"}, {}, {"console", "__val", "__setVar"},
                  GlobalNames \cup ProgramGlobals}

\* const oldConsole = globalThis.console; const oldCheckpoint = g.__checkpoint; ...
saveGlobals(g) == [b \in GlobalNames |-> g[b]]

\* globalThis.console = consoleProxy; g.__checkpoint = ...; ... g.__callExit = ...
installHooks(g) ==
  [b \in DOMAIN g |-> CASE b = "console" -> "consoleProxy"
                        [] b \in HookNames -> "hook"
                        [] OTHER -> g[b]]

\* The finally block without its last assignment: g.__callExit stays.
restoreGlobals_keepsCallExit(g, old) ==
  [b \in DOMAIN g |-> IF b \in GlobalNames \ {"__callExit"} THEN old[b] ELSE g[b]]

\* finally { globalThis.console = oldConsole; g.__checkpoint = oldCheckpoint; ... }
restoreGlobals(g, old) == [b \in DOMAIN g |-> IF b \in GlobalNames THEN old[b] ELSE g[b]]

\* What the traced program can throw: an Error instance, a primitive, and an
\* object that has no conversion to a string (Object.create(null)).
ThrownValues == {"TypeError", "1", "bare"}

\* const err = e instanceof Error ? e : new Error(String(e)): String(e) throws
\* a TypeError when e cannot be converted to a primitive.
toError(e) ==
  CASE e \in {"TypeError", "SyntaxError", "ReferenceError"} -> [threw |-> FALSE, name |-> e, message |-> "m"]
    [] e = "bare" -> [threw |-> TRUE, name |-> "TypeError", message |-> "m"]
    [] OTHER -> [threw |-> FALSE, name |-> "Error", message |-> e]

NoError == [name |-> "", message |-> ""]
NoTrace == [steps |-> <<>>, events |-> <<>>, snapshots |-> <<>>, callEvents |-> <<>>]

\* The promise of api.run: pending, fulfilled with a RunResult (ok, error,
\* trace), or rejected with the exception that left the function.
PendingResult == [settled |-> "pending", ok |-> FALSE, error |-> NoError, trace |-> NoTrace]

\* return { ok: true, logs, result, trace: rec.trace }
RunOk(r) == [settled |-> "fulfilled", ok |-> TRUE, error |-> NoError, trace |-> r.trace]

\* catch (e) { const err = ...; return { ok: false, logs, error: {...}, trace: rec.trace } }
RunErr(r, e) ==
  LET err == toError(e)
  IN IF err.threw
     THEN [settled |-> "rejected", ok |-> FALSE,
           error |-> [name |-> err.name, message |-> err.message], trace |-> NoTrace]
     ELSE [settled |-> "fulfilled", ok |-> FALSE,
           error |-> [name |-> err.name, message |-> err.message], trace |-> r.trace]

(***************************************************************************)
(* createRunner (the RunnerHandle of the main thread).  Workers are        *)
(* numbered in the order new RunnerWorker() creates them; worker = 0       *)
(* stands for null.  A call of run is a record: the worker it started, its *)
(* timer ("armed" or "fired"), how its promise settled, and whether a      *)
(* TraceLog was delivered to the caller with it.                           *)
(***************************************************************************)
NoRunner == [worker |-> 0, running |-> FALSE, spawned |-> 0, alive |-> {}, calls |-> <<>>]

\* stop(): if (worker) worker.terminate(); worker = null; api = null; running = false
stop(rn) == [rn EXCEPT !.alive = @ \ {rn.worker}, !.worker = 0, !.running = FALSE]

\* start(): worker = new RunnerWorker(); api = Comlink.wrap(worker)
start(rn) == [rn EXCEPT !.spawned = @ + 1, !.worker = rn.spawned + 1,
                        !.alive = @ \cup {rn.spawned + 1}]

(***************************************************************************)
(* EditorPane: the code of the editor, the refs runInFlightRef,            *)
(* rerunRequestedRef and latestCodeRef, the 300 ms debounce timer, and the *)
(* executeRun invocations that await a call of RunnerHandle.run (awaits    *)
(* maps the number of the awaited call to its codeToRun).  requested and   *)
(* ran are history: the latest code at the latest requestRun, and the code *)
(* of the executeRun that returned last.                                   *)
(***************************************************************************)
\* The texts of the samples of the catalog; the user can type any of them.
Codes == {"c1", "c2"}

\* useCodeStore: code is defaultSample.code; no effect has run yet.
NoEditor ==
  [code |-> "c1", latestCode |-> "c1", debounce |-> FALSE, runInFlight |-> FALSE,
   rerunRequested |-> FALSE, awaits |-> EmptyMap, requested |-> "none",
   ran |-> "none", edits |-> 0]

\* while (rerunRequestedRef.current) { rerunRequestedRef.current = false;
\* const codeToRun = latestCodeRef.current; await executeRun(codeToRun); }
\* finally { runInFlightRef.current = false }: up to the next await.
runLoop(ed) ==
  IF ed.rerunRequested
  THEN [starts |-> TRUE, codeToRun |-> ed.latestCode,
        editor |-> [ed EXCEPT !.rerunRequested = FALSE]]
  ELSE [starts |-> FALSE, codeToRun |-> ed.latestCode,
        editor |-> [ed EXCEPT !.runInFlight = FALSE]]

\* requestRun without `if (runInFlightRef.current) return`.
requestRun_noGuard(ed) ==
  runLoop([ed EXCEPT !.rerunRequested = TRUE, !.requested = ed.latestCode,
                     !.runInFlight = TRUE])

\* requestRun up to its first await.
requestRun(ed) ==
  LET e1 == [ed EXCEPT !.rerunRequested = TRUE, !.requested = ed.latestCode]
  IN IF e1.runInFlight
     THEN [starts |-> FALSE, codeToRun |-> ed.latestCode, editor |-> e1]
     ELSE runLoop([e1 EXCEPT !.runInFlight = TRUE])

\* executeRun after its await of call k (try or catch, then finally), and
\* the loop of requestRun that awaited it.
executeRunSettled(ed, k) ==
  runLoop([ed EXCEPT !.ran = ed.awaits[k],
                     !.awaits = [j \in (DOMAIN ed.awaits) \ {k} |-> ed.awaits[j]]])

(***************************************************************************)
(* The instrumenter (instrument.ts).  A program is a sequence of           *)
(* statements; AST nodes are records with the Babel node type in t.  Nodes *)
(* of the source carry their checkpoint ids: start is                      *)
(* checkpointStartIdOf(node) and end is checkpointAfterIdOf(node); a node  *)
(* built by the instrumenter has no loc, so both are "L1:1".               *)
(***************************************************************************)
identifier(name) == [t |-> "Identifier", name |-> name]
stringLiteral(v) == [t |-> "StringLiteral", v |-> v]
literal(v) == [t |-> "Literal", v |-> v]
objectProperty(key, value) == [key |-> key, value |-> value]
objectExpression(properties, startId) ==
  [t |-> "ObjectExpression", properties |-> properties, start |-> startId]
arrayExpression(elements, startId) ==
  [t |-> "ArrayExpression", elements |-> elements, start |-> startId]
memberExpression(object, property) ==
  [t |-> "MemberExpression", object |-> object, property |-> property]
assignmentExpression(left, right, end) ==
  [t |-> "AssignmentExpression", left |-> left, right |-> right, end |-> end]
unaryDelete(argument, end) ==
  [t |-> "UnaryExpression", argument |-> argument, end |-> end]
callExpression(callee, arguments, end) ==
  [t |-> "CallExpression", callee |-> callee, arguments |-> arguments, end |-> end]
arrowFunctionExpression(body) == [t |-> "ArrowFunctionExpression", body |-> body]
variableDeclaration(name, init, end) ==
  [t |-> "VariableDeclaration", name |-> name, hasInit |-> TRUE, init |-> init, end |-> end]
variableDeclarationNoInit(name) ==
  [t |-> "VariableDeclaration", name |-> name, hasInit |-> FALSE,
   init |-> literal("undefined"), end |-> "L1:1"]
expressionStatement(expression) == [t |-> "ExpressionStatement", expression |-> expression]
returnStatement(argument) == [t |-> "ReturnStatement", argument |-> argument]
throwStatement(argument) == [t |-> "ThrowStatement", argument |-> argument]
tryStatement(block, finalizer) ==
  [t |-> "TryStatement", block |-> block, finalizer |-> finalizer, scope |-> 0]
functionDeclaration(name, params, body, startId, endId) ==
  [t |-> "FunctionDeclaration", name |-> name, params |-> params, body |-> body,
   start |-> startId, end |-> endId, generator |-> FALSE]
\* function* name(params) { body }
generatorDeclaration(name, params, body, startId, endId) ==
  [functionDeclaration(name, params, body, startId, endId) EXCEPT !.generator = TRUE]
\* yield argument
yieldExpression(argument) == [t |-> "YieldExpression", argument |-> argument]

\* INTERNAL_NAME_RE = /^(?:__|_o|_a)/ on the names of the model.
InternalNames == {"__cp_result", "_o", "_a"}
shouldRecordRoot(name) == name \notin InternalNames

\* String(i) for the indices of an array literal.
IndexKeys == <<"0", "1", "2">>

hookCall(name, arguments) == callExpression(identifier(name), arguments, "L1:1")

mkRootSetStmt(name, checkpointId) ==
  expressionStatement(
    hookCall("__setVar", <<stringLiteral(name), identifier(name), stringLiteral(checkpointId)>>))

\* (() => { const __cp_result = expr; __checkpoint(checkpointId); return __cp_result; })()
\* The wrapper calling __checkpoint before it evaluates the expression.
withCheckpointExpr_before(expr, checkpointId) ==
  callExpression(
    arrowFunctionExpression(
      << expressionStatement(hookCall("__checkpoint", <<stringLiteral(checkpointId)>>)),
         variableDeclaration("__cp_result", expr, "L1:1"),
         returnStatement(identifier("__cp_result")) >>),
    <<>>, "L1:1")

withCheckpointExpr(expr, checkpointId) ==
  callExpression(
    arrowFunctionExpression(
      << variableDeclaration("__cp_result", expr, "L1:1"),
         expressionStatement(hookCall("__checkpoint", <<stringLiteral(checkpointId)>>)),
         returnStatement(identifier("__cp_result")) >>),
    <<>>, "L1:1")

\* The ObjectExpression visitor emitting the writes of the properties from the
\* last property to the first.
expandObject_reversed(node) ==
  callExpression(
    arrowFunctionExpression(
      << variableDeclaration("_o", hookCall("__val", <<objectExpression(<<>>, "L1:1")>>), "L1:1") >>
      \o [i \in 1..Len(node.properties) |->
            expressionStatement(
              hookCall("__writeProp",
                       << identifier("_o"),
                          stringLiteral(node.properties[Len(node.properties) + 1 - i].key),
                          node.properties[Len(node.properties) + 1 - i].value,
                          stringLiteral(node.start) >>))]
      \o << returnStatement(identifier("_o")) >>),
    <<>>, "L1:1")

\* The ObjectExpression visitor: (() => { const _o = __val({}); __writeProp(_o, k, v, id); ...; return _o; })()
\* with the property values as they are in the source.
expandObject(node) ==
  callExpression(
    arrowFunctionExpression(
      << variableDeclaration("_o", hookCall("__val", <<objectExpression(<<>>, "L1:1")>>), "L1:1") >>
      \o [i \in 1..Len(node.properties) |->
            expressionStatement(
              hookCall("__writeProp",
                       << identifier("_o"), stringLiteral(node.properties[i].key),
                          node.properties[i].value, stringLiteral(node.start) >>))]
      \o << returnStatement(identifier("_o")) >>),
    <<>>, "L1:1")

\* The ArrayExpression visitor.
expandArray(node) ==
  callExpression(
    arrowFunctionExpression(
      << variableDeclaration("_a", hookCall("__val", <<arrayExpression(<<>>, "L1:1")>>), "L1:1") >>
      \o [i \in 1..Len(node.elements) |->
            expressionStatement(
              hookCall("__writeProp",
                       << identifier("_a"), stringLiteral(IndexKeys[i]),
                          node.elements[i], stringLiteral(node.start) >>))]
      \o << returnStatement(identifier("_a")) >>),
    <<>>, "L1:1")

\* The AssignmentExpression visitor without the checkpoint around the hook
\* call.
wrapAssignment_noCheckpoint(node) ==
  IF node.left.t = "MemberExpression"
  THEN hookCall("__writeProp", << node.left.object, stringLiteral(node.left.property),
                                 node.right, stringLiteral(node.end) >>)
  ELSE IF shouldRecordRoot(node.left.name)
       THEN hookCall("__setVar", << stringLiteral(node.left.name), node.right,
                                   stringLiteral(node.end) >>)
       ELSE node

\* The AssignmentExpression visitor (operator "="); path.skip() leaves the
\* operands as they are in the source.
wrapAssignment(node) ==
  IF node.left.t = "MemberExpression"
  THEN withCheckpointExpr(
         hookCall("__writeProp", << node.left.object, stringLiteral(node.left.property),
                                    node.right, stringLiteral(node.end) >>),
         node.end)
  ELSE IF shouldRecordRoot(node.left.name)
       THEN withCheckpointExpr(
              hookCall("__setVar", << stringLiteral(node.left.name), node.right,
                                      stringLiteral(node.end) >>),
              node.end)
       ELSE withCheckpointExpr(node, node.end)

\* The expression visitors in traversal order.  A literal is replaced by its
\* IIFE, which the CallExpression visitor then wraps with a checkpoint and
\* skips; an assignment or a call is wrapped and skipped; a delete becomes
\* __deleteProp and its operand is traversed.
RECURSIVE instrumentExpr(_)
instrumentExpr(node) ==
  CASE node.t = "ObjectExpression" -> withCheckpointExpr(expandObject(node), "L1:1")
    [] node.t = "ArrayExpression" -> withCheckpointExpr(expandArray(node), "L1:1")
    [] node.t = "AssignmentExpression" -> wrapAssignment(node)
    [] node.t = "CallExpression" -> withCheckpointExpr(node, node.end)
    [] node.t = "UnaryExpression" ->
         callExpression(identifier("__deleteProp"),
                        << instrumentExpr(node.argument.object),
                           stringLiteral(node.argument.property),
                           stringLiteral(node.end) >>, node.end)
    [] node.t = "MemberExpression" ->
         memberExpression(instrumentExpr(node.object), node.property)
    [] OTHER -> node

\* The names the Function visitor collects from the body: the ids of the
\* variable declarators, not those inside nested functions.
RECURSIVE declaredNames(_, _)
declaredNames(stmts, i) ==
  IF i > Len(stmts)
  THEN {}
  ELSE (CASE stmts[i].t = "VariableDeclaration" ->
               IF shouldRecordRoot(stmts[i].name) THEN {stmts[i].name} ELSE {}
          [] stmts[i].t = "TryStatement" ->
               declaredNames(stmts[i].block, 1) \cup declaredNames(stmts[i].finalizer, 1)
          [] OTHER -> {})
       \cup declaredNames(stmts, i + 1)

\* Array.from(localNames).sort().map(name => __deleteVar(name, cpEndId))
cleanup(localNames, cpEndId) ==
  LET sorted == SortedNames(localNames)
  IN [i \in 1..Len(sorted) |->
        expressionStatement(hookCall("__deleteVar", <<stringLiteral(sorted[i]), stringLiteral(cpEndId)>>))]

\* The statement visitors: VariableDeclarator, Function (the body becomes
\* __callEnter; try { body } finally { __callExit; __deleteVar ... }),
\* FunctionDeclaration (__setVar of the function after its declaration).
RECURSIVE instrumentStmts(_, _)
instrumentStmts(stmts, i) ==
  IF i > Len(stmts)
  THEN <<>>
  ELSE LET node == stmts[i]
           out ==
             CASE node.t = "VariableDeclaration" ->
                    IF node.hasInit /\ shouldRecordRoot(node.name)
                    THEN << [node EXCEPT !.init =
                               callExpression(identifier("__setVar"),
                                              << stringLiteral(node.name),
                                                 instrumentExpr(node.init),
                                                 stringLiteral(node.end) >>, "L1:1")] >>
                    ELSE << node >>
               [] node.t = "ExpressionStatement" ->
                    << expressionStatement(instrumentExpr(node.expression)) >>
               [] node.t = "ReturnStatement" ->
                    << returnStatement(instrumentExpr(node.argument)) >>
               [] node.t = "ThrowStatement" ->
                    << throwStatement(instrumentExpr(node.argument)) >>
               [] node.t = "TryStatement" ->
                    << tryStatement(instrumentStmts(node.block, 1),
                                    instrumentStmts(node.finalizer, 1)) >>
               [] node.t = "FunctionDeclaration" ->
                    LET localNames ==
                          {n \in {node.params[k] : k \in 1..Len(node.params)} :
                             shouldRecordRoot(n)}
                          \cup declaredNames(node.body, 1)
                        enter == expressionStatement(
                                   hookCall("__callEnter", << stringLiteral(node.name),
                                                              stringLiteral(node.start) >>))
                        exit == expressionStatement(
                                  hookCall("__callExit", << stringLiteral(node.name),
                                                            stringLiteral(node.end) >>))
                    IN << [node EXCEPT !.body =
                             << enter,
                                tryStatement(instrumentStmts(node.body, 1),
                                             <<exit>> \o cleanup(localNames, node.end)) >>] >>
                       \o (IF shouldRecordRoot(node.name)
                           THEN << mkRootSetStmt(node.name, node.start) >>
                           ELSE <<>>)
               [] OTHER -> << node >>
       IN out \o instrumentStmts(stmts, i + 1)

\* instrument(code) on a source that parses.
instrument(code) == instrumentStmts(code, 1)

(***************************************************************************)
(* The program that api.run executes (new Function of the compiled code,   *)
(* in strict mode), as a big-step interpreter of the AST.  A machine holds *)
(* the recorder, the scopes (frames, each with the index of its parent; 0  *)
(* is the global scope), the properties of the objects and arrays (heap)   *)
(* and the closures.  Object identities are taken in order of creation     *)
(* from ObjectIdents and ArrayIdents; the function declared as f has the   *)
(* identity FunctionIdent.f (every function declaration of the programs    *)
(* below is evaluated at most once).  With hooked = FALSE the hook names   *)
(* are unbound: that machine runs a source as it was written.              *)
(***************************************************************************)
TDZ == "<uninitialized>"

NewMachine(r, hooked) ==
  [rec |-> r, hooked |-> hooked, frames |-> <<>>, heap |-> EmptyMap,
   closures |-> EmptyMap, objects |-> 0, arrays |-> 0]

Normal(m, v) == [m |-> m, c |-> "normal", v |-> v]
Throw(m, v) == [m |-> m, c |-> "throw", v |-> v]
Return(m, v) == [m |-> m, c |-> "return", v |-> v]

\* A generator body suspended at yield v. k is what is left to run when the
\* generator is resumed: the statements after the yield, a try statement
\* that the yield left pending being entered again in its scope.
Yield(m, v) == [m |-> m, c |-> "yield", v |-> v, k |-> <<>>]

\* The scope of a block or function body: its let/const names are
\* uninitialized, its function declarations are bound to their closures.
enterScope(m, parent, stmts, bound) ==
  LET fr == Len(m.frames) + 1
      lets == {stmts[j].name : j \in {i \in 1..Len(stmts) : stmts[i].t = "VariableDeclaration"}}
      fnIdx == {i \in 1..Len(stmts) : stmts[i].t = "FunctionDeclaration"}
      fnNames == {stmts[j].name : j \in fnIdx}
      fnIds == {FunctionIdent[n] : n \in fnNames}
      declOf(n) == stmts[CHOOSE j \in fnIdx : stmts[j].name = n]
      scope == [n \in (DOMAIN bound) \cup lets \cup fnNames |->
                  IF n \in fnNames THEN FunctionIdent[n]
                  ELSE IF n \in lets THEN TDZ ELSE bound[n]]
  IN [m EXCEPT !.frames = Append(m.frames, [vars |-> scope, parent |-> parent]),
               !.closures = [id \in (DOMAIN m.closures) \cup fnIds |->
                               IF id \in fnIds
                               THEN [decl |-> declOf(FunctionName[id]), env |-> fr]
                               ELSE m.closures[id]]]

\* The frame that binds name, searching from env outwards; 0 if none does.
RECURSIVE resolve(_, _, _)
resolve(frames, env, name) ==
  IF env = 0
  THEN 0
  ELSE IF name \in DOMAIN frames[env].vars
       THEN env
       ELSE resolve(frames, frames[env].parent, name)

\* base[k] = val: a TypeError on null and undefined, and (strict mode) on a
\* primitive; a property of a function is not part of the model.
setProp(m, base, k, val) ==
  IF base \in DOMAIN m.heap
  THEN [threw |-> FALSE, m |-> [m EXCEPT !.heap[base] = Put(@, k, val)]]
  ELSE [threw |-> base \notin DOMAIN m.closures, m |-> m]

\* delete base[k]: a TypeError on null and undefined.
deleteProp(m, base, k) ==
  IF base \in DOMAIN m.heap
  THEN [threw |-> FALSE, m |-> [m EXCEPT !.heap[base] = Remove(@, k)]]
  ELSE [threw |-> base \in {"null", "undefined"}, m |-> m]

\* The hooks that api.run binds on globalThis, called with evaluated arguments.
callHook(m, name, args) ==
  CASE name = "__checkpoint" ->
         LET c == checkpointStep(m.rec, args[1])
         IN IF c.threw THEN Throw([m EXCEPT !.rec = c.rec], "TypeError")
            ELSE Normal([m EXCEPT !.rec = c.rec], "undefined")
    [] name = "__val" ->
         Normal([m EXCEPT !.rec = toValueRef(m.rec, args[1]).rec], args[1])
    [] name = "__writeProp" ->
         LET baseRef == toValueRef(m.rec, args[1])
             valRef == toValueRef(baseRef.rec, args[3])
             r == IF baseRef.ref.kind = "obj"
                  THEN write(valRef.rec, baseRef.ref.id, args[2], valRef.ref, args[4])
                  ELSE valRef.rec
         IN Normal([setProp(m, args[1], args[2], args[3]).m EXCEPT !.rec = r], args[3])
    [] name = "__deleteProp" ->
         LET baseRef == toValueRef(m.rec, args[1])
             r == IF baseRef.ref.kind = "obj"
                  THEN del(baseRef.rec, baseRef.ref.id, args[2], args[3])
                  ELSE baseRef.rec
             d == deleteProp(m, args[1], args[2])
         IN Normal([d.m EXCEPT !.rec = r], IF d.threw THEN "false" ELSE "undefined")
    [] name = "__setVar" ->
         LET ref == toValueRef(m.rec, args[2])
         IN Normal([m EXCEPT !.rec = rootSet(ref.rec, args[1], ref.ref, args[3])], args[2])
    [] name = "__deleteVar" ->
         Normal([m EXCEPT !.rec = rootDel(m.rec, args[1], args[2])], "undefined")
    [] name = "__callEnter" ->
         Normal([m EXCEPT !.rec = callEnter(m.rec, args[1], args[2])], "undefined")
    [] name = "__callExit" ->
         Normal([m EXCEPT !.rec = callExit(m.rec, args[1], args[2])], "undefined")

\* The value of a call: the returned value, undefined when the body ends.
fromCall(c) ==
  CASE c.c = "return" -> Normal(c.m, c.v)
    [] c.c = "normal" -> Normal(c.m, "undefined")
    [] OTHER -> c

\* K applied to the value of v, which is computed once.
Bind(v, K(_)) == CHOOSE r \in {K(x) : x \in {v}} : TRUE

\* K applied to a normal completion c; an abrupt completion c is the result.
Then(v, K(_)) == Bind(v, LAMBDA c : IF c.c # "normal" THEN c ELSE K(c))

\* The value of the binding of name, or a ReferenceError when the name is
\* unbound or its declaration has not been evaluated.
getBinding(m, env, name) ==
  Bind(resolve(m.frames, env, name),
       LAMBDA fr : IF fr = 0 THEN Throw(m, "ReferenceError")
                   ELSE IF m.frames[fr].vars[name] = TDZ THEN Throw(m, "ReferenceError")
                   ELSE Normal(m, m.frames[fr].vars[name]))

\* name = val (strict mode).
setBinding(m, env, name, val) ==
  Bind(resolve(m.frames, env, name),
       LAMBDA fr : IF fr = 0 THEN Throw(m, "ReferenceError")
                   ELSE IF m.frames[fr].vars[name] = TDZ THEN Throw(m, "ReferenceError")
                   ELSE Normal([m EXCEPT !.frames[fr].vars[name] = val], val))

\* base[k]
getProp(m, base, k) ==
  IF base \in {"null", "undefined"} THEN Throw(m, "TypeError")
  ELSE IF base \in DOMAIN m.heap
       THEN Normal(m, IF k \in DOMAIN m.heap[base] THEN m.heap[base][k] ELSE "undefined")
       ELSE Normal(m, "undefined")

\* base[k] = val as an expression.
putProp(m, base, k, val) ==
  Bind(setProp(m, base, k, val),
       LAMBDA w : IF w.threw THEN Throw(m, "TypeError") ELSE Normal(w.m, val))

\* delete base[k] as an expression.
deleteExpr(m, base, k) ==
  Bind(deleteProp(m, base, k),
       LAMBDA d : IF d.threw THEN Throw(m, "TypeError") ELSE Normal(d.m, "true"))

\* A new object (or array) without properties.
newObject(m, isArray) ==
  IF isArray
  THEN Normal([m EXCEPT !.arrays = @ + 1, !.heap = Put(@, ArrayIdents[m.arrays + 1], EmptyMap)],
              ArrayIdents[m.arrays + 1])
  ELSE Normal([m EXCEPT !.objects = @ + 1, !.heap = Put(@, ObjectIdents[m.objects + 1], EmptyMap)],
              ObjectIdents[m.objects + 1])

\* The properties of a literal as key and value: the keys of an array
\* literal are the indices of its elements.
propertiesOf(node) ==
  IF node.t = "ArrayExpression"
  THEN [i \in 1..Len(node.elements) |-> objectProperty(IndexKeys[i], node.elements[i])]
  ELSE node.properties

\* The scope of a call of closure cl with the arguments args.
callScope(m, cl, args) ==
  enterScope(m, cl.env, cl.decl.body,
             [n \in {cl.decl.params[k] : k \in 1..Len(cl.decl.params)} |->
                LET k == CHOOSE j \in 1..Len(cl.decl.params) : cl.decl.params[j] = n
                IN IF k <= Len(args) THEN args[k] ELSE "undefined"])

RECURSIVE EvalExpr(_, _, _)
RECURSIVE EvalArgs(_, _, _, _, _)
RECURSIVE EvalProps(_, _, _, _, _)
RECURSIVE ExecStmt(_, _, _)
RECURSIVE ExecStmts(_, _, _, _)
RECURSIVE ExecBlock(_, _, _)

\* The statements of a block or function body in a new scope.
ExecBlock(m, parent, stmts) ==
  Bind(enterScope(m, parent, stmts, EmptyMap),
       LAMBDA m1 : ExecStmts(m1, Len(m1.frames), stmts, 1))

\* The arguments of a call, left to right.
EvalArgs(m, env, arguments, i, acc) ==
  IF i > Len(arguments)
  THEN Normal(m, acc)
  ELSE Then(EvalExpr(m, env, arguments[i]),
            LAMBDA c : EvalArgs(c.m, env, arguments, i + 1, Append(acc, c.v)))

\* The properties of an object or array literal, in source order.
EvalProps(m, env, id, properties, i) ==
  IF i > Len(properties)
  THEN Normal(m, id)
  ELSE Then(EvalExpr(m, env, properties[i].value),
            LAMBDA c : EvalProps([c.m EXCEPT !.heap[id] = Put(@, properties[i].key, c.v)],
                                 env, id, properties, i + 1))

\* The iterator result { value, done } of a call of next().
iterResult(m, value, done) ==
  Bind(newObject(m, FALSE),
       LAMBDA o : Normal([o.m EXCEPT !.heap[o.v] = Put(Put(@, "value", value), "done", done)],
                         o.v))

\* The generator object that a call of a generator function returns: the
\* scope of the call exists, the body does not run before the first next().
newGenerator(m, cl, args) ==
  Bind(callScope(m, cl, args),
       LAMBDA m1 :
         Bind(newObject(m1, FALSE),
              LAMBDA o : Normal([o.m EXCEPT !.heap[o.v] =
                                   Put(Put(Put(@, "[[GeneratorState]]", "suspendedStart"),
                                           "[[Scope]]", Len(m1.frames)),
                                       "[[Continuation]]", cl.decl.body)],
                                o.v)))

\* base is a generator object.
isGenerator(m, base) ==
  base \in DOMAIN m.heap /\ "[[GeneratorState]]" \in DOMAIN m.heap[base]

\* What the call of a function value does, the arguments being evaluated:
\* the statements to run and their scope, or the value when nothing runs,
\* or a TypeError.  callee(...) runs the body of a declared function in a
\* new scope and returns a new generator for a generator function;
\* gen.next() runs the body of the generator from where it is suspended;
\* any other value is not callable.
callPlan(m, node, a) ==
  IF node.callee.t = "MemberExpression"
  THEN IF node.callee.property = "next" /\ isGenerator(m, a[1])
       THEN IF m.heap[a[1]]["[[GeneratorState]]"] = "completed"
            THEN [runs |-> FALSE, result |-> iterResult(m, "undefined", "true")]
            ELSE [runs |-> TRUE, m |-> m, env |-> m.heap[a[1]]["[[Scope]]"],
                  stmts |-> m.heap[a[1]]["[[Continuation]]"], gen |-> a[1]]
       ELSE [runs |-> FALSE, result |-> Throw(m, "TypeError")]
  ELSE IF a[1] \notin DOMAIN m.closures
       THEN [runs |-> FALSE, result |-> Throw(m, "TypeError")]
       ELSE IF m.closures[a[1]].decl.generator
            THEN [runs |-> FALSE, result |-> newGenerator(m, m.closures[a[1]], Tail(a))]
            ELSE Bind(callScope(m, m.closures[a[1]], Tail(a)),
                      LAMBDA m1 : [runs |-> TRUE, m |-> m1, env |-> Len(m1.frames),
                                   stmts |-> m.closures[a[1]].decl.body, gen |-> ""])

\* The value of the call for the completion c of the statements that ran:
\* that of a function call, or the iterator result of next(), the generator
\* being suspended at a yield or completed.
finishCall(c, gen) ==
  CASE gen = "" -> fromCall(c)
    [] gen # "" /\ c.c = "yield" ->
         iterResult([c.m EXCEPT !.heap[gen] =
                       Put(Put(@, "[[GeneratorState]]", "suspendedYield"),
                           "[[Continuation]]", c.k)],
                    c.v, "false")
    [] gen # "" /\ c.c = "throw" ->
         Throw([c.m EXCEPT !.heap[gen] = Put(@, "[[GeneratorState]]", "completed")], c.v)
    [] gen # "" /\ c.c \in {"normal", "return"} ->
         iterResult([c.m EXCEPT !.heap[gen] = Put(@, "[[GeneratorState]]", "completed")],
                    IF c.c = "return" THEN c.v ELSE "undefined", "true")

EvalExpr(m, env, node) ==
  CASE node.t \in {"Literal", "StringLiteral"} -> Normal(m, node.v)
    [] node.t = "Identifier" -> getBinding(m, env, node.name)
    [] node.t \in {"ObjectExpression", "ArrayExpression"} ->
         Bind(newObject(m, node.t = "ArrayExpression"),
              LAMBDA o : EvalProps(o.m, env, o.v, propertiesOf(node), 1))
    [] node.t = "MemberExpression" ->
         Then(EvalExpr(m, env, node.object), LAMBDA o : getProp(o.m, o.v, node.property))
    [] node.t = "AssignmentExpression" ->
         IF node.left.t = "Identifier"
         THEN Then(EvalExpr(m, env, node.right),
                   LAMBDA c : setBinding(c.m, env, node.left.name, c.v))
         ELSE Then(EvalArgs(m, env, <<node.left.object, node.right>>, 1, <<>>),
                   LAMBDA a : putProp(a.m, a.v[1], node.left.property, a.v[2]))
    [] node.t = "UnaryExpression" ->
         Then(EvalExpr(m, env, node.argument.object),
              LAMBDA o : deleteExpr(o.m, o.v, node.argument.property))
    [] node.t = "CallExpression" ->
         IF node.callee.t = "ArrowFunctionExpression"
         THEN fromCall(ExecBlock(m, env, node.callee.body))
         ELSE IF m.hooked /\ node.callee.t = "Identifier" /\ node.callee.name \in HookNames
         THEN Then(EvalArgs(m, env, node.arguments, 1, <<>>),
                   LAMBDA a : callHook(a.m, node.callee.name, a.v))
         ELSE Then(EvalArgs(m, env,
                            << IF node.callee.t = "MemberExpression"
                               THEN node.callee.object ELSE node.callee >>
                            \o node.arguments, 1, <<>>),
                   LAMBDA a : Bind(callPlan(a.m, node, a.v),
                                   LAMBDA p : IF ~p.runs
                                              THEN p.result
                                              ELSE Bind(ExecStmts(p.m, p.env, p.stmts, 1),
                                                        LAMBDA c : finishCall(c, p.gen))))

ExecStmt(m, env, node) ==
  CASE node.t = "VariableDeclaration" ->
         Then(IF node.hasInit THEN EvalExpr(m, env, node.init) ELSE Normal(m, "undefined"),
              LAMBDA c : Normal([c.m EXCEPT !.frames[env].vars[node.name] = c.v], "undefined"))
    [] node.t = "ExpressionStatement" ->
         Then(EvalExpr(m, env, IF node.expression.t = "YieldExpression"
                               THEN node.expression.argument ELSE node.expression),
              LAMBDA c : IF node.expression.t = "YieldExpression"
                         THEN Yield(c.m, c.v)
                         ELSE Normal(c.m, "undefined"))
    [] node.t = "ReturnStatement" ->
         Then(EvalExpr(m, env, node.argument), LAMBDA c : Return(c.m, c.v))
    [] node.t = "ThrowStatement" ->
         Then(EvalExpr(m, env, node.argument), LAMBDA c : Throw(c.m, c.v))
    [] node.t = "TryStatement" ->
         Bind(IF node.scope = 0 THEN enterScope(m, env, node.block, EmptyMap) ELSE m,
              LAMBDA m1 :
                Bind(ExecStmts(m1, IF node.scope = 0 THEN Len(m1.frames) ELSE node.scope,
                               node.block, 1),
                     LAMBDA b : IF b.c = "yield"
                                THEN [b EXCEPT !.k =
                                        << [node EXCEPT !.block = b.k,
                                                        !.scope = IF node.scope = 0
                                                                  THEN Len(m1.frames)
                                                                  ELSE node.scope] >>]
                                ELSE Bind(ExecBlock(b.m, env, node.finalizer),
                                          LAMBDA f : IF f.c # "normal" THEN f
                                                     ELSE [b EXCEPT !.m = f.m])))
    [] node.t = "FunctionDeclaration" -> Normal(m, "undefined")

ExecStmts(m, env, stmts, i) ==
  IF i > Len(stmts)
  THEN Normal(m, "undefined")
  ELSE Bind(ExecStmt(m, env, stmts[i]),
            LAMBDA c : IF c.c = "normal"
                       THEN ExecStmts(c.m, env, stmts, i + 1)
                       ELSE IF c.c = "yield"
                       THEN [c EXCEPT !.k = @ \o SubSeq(stmts, i + 1, Len(stmts))]
                       ELSE c)

\* fn(): the whole body of the function that new Function built from code.
runFunction(m, code) == fromCall(ExecBlock(m, 0, code))

(***************************************************************************)
(* The sources that the model runs, each written on one line; the          *)
(* checkpoint ids are the positions L1:<column> in that line.              *)
(***************************************************************************)
\* const x = 1; const y = {a: x}; y.a = 2;
Source1 ==
  << variableDeclaration("x", literal("1"), "L1:12"),
     variableDeclaration("y", objectExpression(<<objectProperty("a", identifier("x"))>>, "L1:24"),
                         "L1:30"),
     expressionStatement(
       assignmentExpression(memberExpression(identifier("y"), "a"), literal("2"), "L1:39")) >>

\* function f() { const t = 1; } f();
Source2 ==
  << functionDeclaration("f", <<>>, << variableDeclaration("t", literal("1"), "L1:27") >>,
                         "L1:1", "L1:30"),
     expressionStatement(callExpression(identifier("f"), <<>>, "L1:34")) >>

\* function f() { const t = 1; throw 1; } f();
Source3 ==
  << functionDeclaration("f", <<>>,
                         << variableDeclaration("t", literal("1"), "L1:27"),
                            throwStatement(literal("1")) >>,
                         "L1:1", "L1:39"),
     expressionStatement(callExpression(identifier("f"), <<>>, "L1:43")) >>

\* function f(p) { p = 2; let t; t = 1; } f(1);
Source4 ==
  << functionDeclaration("f", <<"p">>,
                         << expressionStatement(
                              assignmentExpression(identifier("p"), literal("2"), "L1:22")),
                            variableDeclarationNoInit("t"),
                            expressionStatement(
                              assignmentExpression(identifier("t"), literal("1"), "L1:36")) >>,
                         "L1:1", "L1:39"),
     expressionStatement(callExpression(identifier("f"), <<literal("1")>>, "L1:44")) >>

\* function f() { function g() {} } f();
Source5 ==
  << functionDeclaration("f", <<>>,
                         << functionDeclaration("g", <<>>, <<>>, "L1:16", "L1:31") >>,
                         "L1:1", "L1:33"),
     expressionStatement(callExpression(identifier("f"), <<>>, "L1:37")) >>

\* let p; let q; function s1() { p = 1; return 1; } function s2() { q = 2; return 2; } const o = {a: s1(), b: s2()};
Source6 ==
  << variableDeclarationNoInit("p"),
     variableDeclarationNoInit("q"),
     functionDeclaration("s1", <<>>,
                         << expressionStatement(
                              assignmentExpression(identifier("p"), literal("1"), "L1:36")),
                            returnStatement(literal("1")) >>,
                         "L1:15", "L1:49"),
     functionDeclaration("s2", <<>>,
                         << expressionStatement(
                              assignmentExpression(identifier("q"), literal("2"), "L1:71")),
                            returnStatement(literal("2")) >>,
                         "L1:50", "L1:84"),
     variableDeclaration("o",
       objectExpression(<< objectProperty("a", callExpression(identifier("s1"), <<>>, "L1:103")),
                           objectProperty("b", callExpression(identifier("s2"), <<>>, "L1:112")) >>,
                        "L1:95"),
       "L1:113") >>

\* let p; function s1() { p = 1; return 1; } const a = [s1(), 2];
Source7 ==
  << variableDeclarationNoInit("p"),
     functionDeclaration("s1", <<>>,
                         << expressionStatement(
                              assignmentExpression(identifier("p"), literal("1"), "L1:29")),
                            returnStatement(literal("1")) >>,
                         "L1:8", "L1:42"),
     variableDeclaration("a",
       arrayExpression(<< callExpression(identifier("s1"), <<>>, "L1:58"), literal("2") >>,
                       "L1:53"),
       "L1:62") >>

\* const o = {k: 1}; const r = delete o.k;
Source8 ==
  << variableDeclaration("o", objectExpression(<<objectProperty("k", literal("1"))>>, "L1:11"),
                         "L1:17"),
     variableDeclaration("r", unaryDelete(memberExpression(identifier("o"), "k"), "L1:39"),
                         "L1:39") >>

\* let x; const r = (x = 2);
Source9 ==
  << variableDeclarationNoInit("x"),
     variableDeclaration("r", assignmentExpression(identifier("x"), literal("2"), "L1:24"),
                         "L1:25") >>

\* const o = {k: 1}; const r = (o.k = 2);
Source10 ==
  << variableDeclaration("o", objectExpression(<<objectProperty("k", literal("1"))>>, "L1:11"),
                         "L1:17"),
     variableDeclaration("r",
       assignmentExpression(memberExpression(identifier("o"), "k"), literal("2"), "L1:37"),
       "L1:38") >>

\* const o = null; o.k = 1;
Source11 ==
  << variableDeclaration("o", literal("null"), "L1:15"),
     expressionStatement(
       assignmentExpression(memberExpression(identifier("o"), "k"), literal("1"), "L1:24")) >>

\* const o = {}; o.k = 1;
Source12 ==
  << variableDeclaration("o", objectExpression(<<>>, "L1:11"), "L1:13"),
     expressionStatement(
       assignmentExpression(memberExpression(identifier("o"), "k"), literal("1"), "L1:22")) >>

\* const t = 2; function f() { const t = 1; } f();
Source13 ==
  << variableDeclaration("t", literal("2"), "L1:12"),
     functionDeclaration("f", <<>>, << variableDeclaration("t", literal("1"), "L1:40") >>,
                         "L1:14", "L1:43"),
     expressionStatement(callExpression(identifier("f"), <<>>, "L1:47")) >>

\* function* g() { yield 1; } const it = g(); it.next();
Source14 ==
  << generatorDeclaration("g", <<>>,
                          << expressionStatement(yieldExpression(literal("1"))) >>,
                          "L1:1", "L1:27"),
     variableDeclaration("it", callExpression(identifier("g"), <<>>, "L1:42"), "L1:42"),
     expressionStatement(
       callExpression(memberExpression(identifier("it"), "next"), <<>>, "L1:53")) >>

\* function* g() { yield 1; } function f() { it.next(); } const it = g(); it.next(); f();
Source15 ==
  << generatorDeclaration("g", <<>>,
                          << expressionStatement(yieldExpression(literal("1"))) >>,
                          "L1:1", "L1:27"),
     functionDeclaration("f", <<>>,
                         << expressionStatement(
                              callExpression(memberExpression(identifier("it"), "next"),
                                             <<>>, "L1:52")) >>,
                         "L1:28", "L1:55"),
     variableDeclaration("it", callExpression(identifier("g"), <<>>, "L1:70"), "L1:70"),
     expressionStatement(
       callExpression(memberExpression(identifier("it"), "next"), <<>>, "L1:81")),
     expressionStatement(callExpression(identifier("f"), <<>>, "L1:86")) >>

\* function g() {} function f() { throw 1; } g(); f();
Source16 ==
  << functionDeclaration("g", <<>>, <<>>, "L1:1", "L1:16"),
     functionDeclaration("f", <<>>, << throwStatement(literal("1")) >>, "L1:17", "L1:42"),
     expressionStatement(callExpression(identifier("g"), <<>>, "L1:46")),
     expressionStatement(callExpression(identifier("f"), <<>>, "L1:51")) >>

Sources == << Source1, Source2, Source3, Source4, Source5, Source6, Source7,
              Source8, Source9, Source10, Source11, Source12, Source13,
              Source14, Source15, Source16 >>

(***************************************************************************)
(* The state machine: one run of the worker drives a fresh recorder        *)
(* through the runtime hooks, the trace is handed off, and the consumer    *)
(* replays it.                                                             *)
(***************************************************************************)
VARIABLES
  rec,      \* the CheckpointRecorder of the run
  phase,    \* "running": the traced program runs; "done": the trace is handed off
  last,     \* outcome of the latest call: "init", "call", "skip", "throw", "handoff", "getStateAt"
  liveAt,   \* history: liveAt[k] is the live HeapState at the k-th call of checkpointStep
  handed,   \* history: the TraceLog as it was handed off
  replay,   \* the latest getStateAt call and its result
  globals,  \* globalThis of the worker: the hook bindings and console
  apiRun,   \* the api.run invocation: its saved bindings and its RunResult
  runner,   \* the RunnerHandle on the main thread: worker, running, its run calls
  prog,     \* the program of the run: source, compiled code, scopes, heap, completion
  editor    \* the EditorPane: code, its refs, the debounce timer, the runs it awaits

vars == <<rec, phase, last, liveAt, handed, replay, globals, apiRun, runner, prog,
          editor>>

\* The state of the worker around a run, which the hooks and the replay engine
\* leave alone.
ext == <<globals, apiRun, runner, prog, editor>>

\* No source is modelled: the program is any sequence of hook calls.
NoProgram ==
  [source |-> 0, code |-> <<>>, pc |-> 0, frames |-> <<>>, heap |-> EmptyMap,
   closures |-> EmptyMap, objects |-> 0, arrays |-> 0, completion |-> "none",
   value |-> "undefined"]

NoReplay == [calls |-> 0, stepId |-> 0, raised |-> FALSE, state |-> EmptyState]

Init ==
  /\ \E n \in 0..MaxSnapshotEvery : rec = NewRecorder(n)
  /\ phase = "running"
  /\ last = "init"
  /\ liveAt = <<>>
  /\ handed = NewRecorder(1).trace
  /\ replay = NoReplay
  /\ globals = installHooks(GlobalsWith({"console"}))
  /\ apiRun = [old |-> saveGlobals(GlobalsWith({"console"})),
               before |-> GlobalsWith({"console"}),
               opts |-> rec.snapshotEvery,
               result |-> PendingResult]
  /\ runner = NoRunner
  /\ prog = NoProgram
  /\ editor = NoEditor

InBounds(r) ==
  /\ Len(r.trace.events) <= MaxEvents
  /\ Len(r.trace.steps) <= MaxSteps

\* A hook call that returns normally and leaves the recorder as r.
Returns(r) ==
  /\ phase = "running"
  /\ InBounds(r)
  /\ rec' = r
  /\ last' = "call"
  /\ UNCHANGED <<phase, liveAt, handed, replay, ext>>

\* g.__val
Val(v) == Returns(toValueRef(rec, v).rec)

\* g.__writeProp
WriteProp(base, key, val, checkpointId) ==
  LET baseRef == toValueRef(rec, base)
      valRef == toValueRef(baseRef.rec, val)
  IN Returns(IF baseRef.ref.kind = "obj"
             THEN write(valRef.rec, baseRef.ref.id, key, valRef.ref, checkpointId)
             ELSE valRef.rec)

\* g.__deleteProp
DeleteProp(base, key, checkpointId) ==
  LET baseRef == toValueRef(rec, base)
  IN Returns(IF baseRef.ref.kind = "obj"
             THEN del(baseRef.rec, baseRef.ref.id, key, checkpointId)
             ELSE baseRef.rec)

\* g.__setVar
SetVar(name, val, checkpointId) ==
  LET ref == toValueRef(rec, val)
  IN Returns(rootSet(ref.rec, name, ref.ref, checkpointId))

\* g.__deleteVar
DeleteVar(name, checkpointId) == Returns(rootDel(rec, name, checkpointId))

\* g.__checkpoint
Checkpoint(checkpointId) ==
  LET c == checkpointStep(rec, checkpointId)
  IN /\ phase = "running"
     /\ InBounds(c.rec)
     /\ rec' = c.rec
     /\ last' = IF c.threw THEN "throw" ELSE "call"
     /\ liveAt' = Append(liveAt, rec.state)
     /\ UNCHANGED <<phase, handed, replay, ext>>

\* rec.write / rec.del called with an ObjId that names no live object.
UnknownWrite(obj, key, val, checkpointId) ==
  /\ phase = "running"
  /\ obj \notin DOMAIN rec.state.objects
  /\ InBounds(write(rec, obj, key, val, checkpointId))
  /\ rec' = write(rec, obj, key, val, checkpointId)
  /\ last' = "skip"
  /\ UNCHANGED <<phase, liveAt, handed, replay, ext>>

UnknownDel(obj, key, checkpointId) ==
  /\ phase = "running"
  /\ obj \notin DOMAIN rec.state.objects
  /\ InBounds(del(rec, obj, key, checkpointId))
  /\ rec' = del(rec, obj, key, checkpointId)
  /\ last' = "skip"
  /\ UNCHANGED <<phase, liveAt, handed, replay, ext>>

\* api.run returns { ..., trace: rec.trace } from its try or its catch block.
Handoff ==
  /\ phase = "running"
  /\ phase' = "done"
  /\ last' = "handoff"
  /\ handed' = rec.trace
  /\ UNCHANGED <<rec, liveAt, replay, ext>>

\* A consumer calls getStateAt(trace, stepId) on the handed-off trace.
GetStateAt(stepId) ==
  LET g == getStateAt(rec.trace, stepId)
  IN /\ phase = "done"
     /\ rec' = [rec EXCEPT !.trace = g.trace]
     /\ replay' = [calls |-> IF replay.calls < MaxGets THEN replay.calls + 1 ELSE MaxGets,
                   stepId |-> stepId, raised |-> g.raised, state |-> g.state]
     /\ last' = "getStateAt"
     /\ UNCHANGED <<phase, liveAt, handed, ext>>

\* The values the traced program can pass to a hook when the recorder is r:
\* a primitive, an object the recorder has seen, or the next new object (the
\* k-th object a run shows to the recorder is called IdentNames[k]).
Known(r) == DOMAIN r.objIdMap
Fresh(r) == IF Cardinality(Known(r)) < MaxObjs
            THEN {IdentNames[Cardinality(Known(r)) + 1]} ELSE {}
Values(r) == Prims \cup Known(r) \cup Fresh(r)

\* The calls the traced program makes through the hooks installed on globalThis.
ProgramHooks ==
  \/ \E v \in Known(rec) \cup Fresh(rec) : Val(v)
  \/ \E base \in Values(rec) \ {"NaN", "10n"}, key \in Keys, cp \in CheckpointIds :
       \E val \in Values(toValueRef(rec, base).rec) : WriteProp(base, key, val, cp)
  \/ \E base \in Values(rec) \ {"NaN", "10n"}, key \in Keys, cp \in CheckpointIds :
       DeleteProp(base, key, cp)
  \/ \E name \in Names, val \in Values(rec), cp \in CheckpointIds : SetVar(name, val, cp)
  \/ \E name \in Names, cp \in CheckpointIds : DeleteVar(name, cp)
  \/ \E cp \in CheckpointIds : Checkpoint(cp)

Hooks ==
  \/ ProgramHooks
  \/ \E n \in 1..(MaxObjs + 1), key \in Keys, cp \in CheckpointIds :
        UnknownWrite(ObjIdOf(n), key, [kind |-> "prim", v |-> "1"], cp)
  \/ \E n \in 1..(MaxObjs + 1), key \in Keys, cp \in CheckpointIds :
        UnknownDel(ObjIdOf(n), key, cp)

Next ==
  \/ Hooks
  \/ Handoff

Spec == Init /\ [][Next]_vars

\* The same run with a shorter event log, followed by the consumer's replays.
NextReplay ==
  \/ Hooks /\ Len(rec'.trace.events) <= MaxReplayEvents
  \/ Handoff
  \/ \E s \in (-1)..(Len(rec.trace.steps) + 1) : GetStateAt(s)

SpecReplay == Init /\ [][NextReplay]_vars

\* g.__callEnter / g.__callExit: String(fnName || "anonymous")
CallHook(kind, fnName, checkpointId) ==
  LET name == IF fnName = "" THEN "anonymous" ELSE fnName
  IN /\ phase = "running"
     /\ Len(rec.trace.callEvents) < MaxCallEvents
     /\ rec' = IF kind = "enter" THEN callEnter(rec, name, checkpointId)
                ELSE callExit(rec, name, checkpointId)
     /\ last' = kind
     /\ UNCHANGED <<phase, liveAt, handed, replay, ext>>

\* The run with the call hooks: a shorter event log, and the calls of
\* __callEnter and __callExit that the traced program makes.
NextCalls ==
  \/ Hooks /\ Len(rec'.trace.events) <= MaxWorkerEvents
  \/ \E kind \in {"enter", "exit"}, fnName \in {"f", ""}, cp \in CheckpointIds :
       CallHook(kind, fnName, cp)
  \/ Handoff

SpecCalls == Init /\ [][NextCalls]_vars

(***************************************************************************)
(* Runs of api.run in one worker.                                          *)
(***************************************************************************)
InitWorker ==
  /\ \E bound \in PriorBindings : globals = GlobalsWith(bound)
  /\ rec = NewRecorder(1)
  /\ phase = "idle"
  /\ last = "init"
  /\ liveAt = <<>>
  /\ handed = NewRecorder(1).trace
  /\ replay = NoReplay
  /\ apiRun = [old |-> saveGlobals(globals), before |-> globals, opts |-> 1,
               result |-> PendingResult]
  /\ runner = NoRunner
  /\ prog = NoProgram
  /\ editor = NoEditor

\* api.run up to its try statement: console and the old bindings are saved,
\* the proxy and the hooks installed, the recorder built.
RunBegin(snapshotEveryNSteps) ==
  /\ phase \in {"idle", "done"}
  /\ apiRun' = [old |-> saveGlobals(globals), before |-> globals,
                opts |-> snapshotEveryNSteps, result |-> PendingResult]
  /\ globals' = installHooks(globals)
  /\ rec' = NewRecorder(snapshotEveryNSteps)
  /\ phase' = "installed"
  /\ last' = "begin"
  /\ liveAt' = <<>>
  /\ handed' = NewRecorder(1).trace
  /\ UNCHANGED <<replay, runner, prog, editor>>

\* The return statement of try or catch followed by the finally block.
Settle(result, how) ==
  /\ apiRun' = [apiRun EXCEPT !.result = result]
  /\ globals' = restoreGlobals(globals, apiRun.old)
  /\ handed' = result.trace
  /\ phase' = "done"
  /\ last' = how
  /\ UNCHANGED <<rec, liveAt, replay, runner, prog, editor>>

\* instrument(code) inside the running program: a parse error can surface
\* after hooks were called.
Instrument_lazy(parses) ==
  /\ phase \in {"installed", "running"}
  /\ IF parses
     THEN /\ phase' = "running"
          /\ last' = "instrument"
          /\ UNCHANGED <<rec, liveAt, handed, replay, ext>>
     ELSE Settle(RunErr(rec, "SyntaxError"), "parseError")

\* const compiled = instrument(code); const fn = new Function(...): either the
\* source parses, or Babel (or new Function) throws a SyntaxError into catch.
Instrument(parses) ==
  /\ phase = "installed"
  /\ IF parses
     THEN /\ phase' = "running"
          /\ last' = "instrument"
          /\ UNCHANGED <<rec, liveAt, handed, replay, ext>>
     ELSE Settle(RunErr(rec, "SyntaxError"), "parseError")

\* fn() returns: the try block returns the RunResult with ok: true.
ProgramReturns ==
  /\ phase = "running"
  /\ Settle(RunOk(rec), "returned")

\* fn() throws e (an exception of the program, or one of a hook that the
\* program does not catch): the catch block builds the RunResult.
ProgramThrows(e) ==
  /\ phase = "running"
  /\ Settle(RunErr(rec, e), "thrown")

\* The traced program defines a global of the worker (globalThis.counter = ...).
SetGlobal(name) ==
  /\ phase = "running"
  /\ globals[name] # "set"
  /\ globals' = [globals EXCEPT ![name] = "set"]
  /\ last' = "global"
  /\ UNCHANGED <<rec, phase, liveAt, handed, replay, apiRun, runner, prog, editor>>

NextWorker ==
  \/ \E n \in 0..MaxSnapshotEvery : RunBegin(n)
  \/ \E parses \in BOOLEAN : Instrument(parses)
  \/ ProgramHooks /\ Len(rec'.trace.events) <= MaxWorkerEvents
  \/ \E name \in ProgramGlobals : SetGlobal(name)
  \/ ProgramReturns
  \/ \E e \in ThrownValues : ProgramThrows(e)

SpecWorker == InitWorker /\ [][NextWorker]_vars

(***************************************************************************)
(* Runs through the RunnerHandle: every call of run starts a worker, whose *)
(* api.run is the state machine above; rec, phase, globals and apiRun are  *)
(* the state of the live worker.  A timer fires at any time after it was   *)
(* armed (timeoutMs and the speed of the worker are not bounded).          *)
(***************************************************************************)
\* No worker is alive: terminate() has discarded the worker's state.
WorkerGone ==
  /\ phase' = "noWorker"
  /\ rec' = NewRecorder(1)
  /\ liveAt' = <<>>
  /\ handed' = NewRecorder(1).trace
  /\ globals' = GlobalsWith({})
  /\ apiRun' = [old |-> saveGlobals(GlobalsWith({})), before |-> GlobalsWith({}),
                opts |-> 1, result |-> PendingResult]

\* new RunnerWorker(): a new global scope, in which only console is bound.
WorkerFresh ==
  /\ phase' = "idle"
  /\ rec' = NewRecorder(1)
  /\ liveAt' = <<>>
  /\ handed' = NewRecorder(1).trace
  /\ globals' = GlobalsWith({"console"})
  /\ apiRun' = [old |-> saveGlobals(GlobalsWith({"console"})),
                before |-> GlobalsWith({"console"}), opts |-> 1, result |-> PendingResult]

InitRunner ==
  /\ runner = NoRunner
  /\ prog = NoProgram
  /\ phase = "noWorker"
  /\ rec = NewRecorder(1)
  /\ last = "init"
  /\ liveAt = <<>>
  /\ handed = NewRecorder(1).trace
  /\ replay = NoReplay
  /\ globals = GlobalsWith({})
  /\ apiRun = [old |-> saveGlobals(GlobalsWith({})), before |-> GlobalsWith({}),
               opts |-> 1, result |-> PendingResult]
  /\ editor = NoEditor

NewCall(rn) ==
  [rn EXCEPT !.running = TRUE,
             !.calls = Append(@, [worker |-> rn.worker, timer |-> "armed",
                                  outcome |-> "pending", delivered |-> FALSE])]

\* run without stop(); start() while a worker is held: the next api.run goes
\* to the worker of the previous run.
Run_reusesWorker ==
  /\ Len(runner.calls) < MaxRuns
  /\ IF runner.worker # 0 /\ phase = "done"
     THEN /\ runner' = NewCall(runner)
          /\ phase' = "idle"
          /\ UNCHANGED <<rec, liveAt, handed, globals, apiRun>>
     ELSE /\ runner' = NewCall(start(stop(runner)))
          /\ WorkerFresh
  /\ last' = "main"
  /\ UNCHANGED <<replay, prog, editor>>

\* RunnerHandle.run up to its await: stop(); start(); running = true; the
\* timer is armed and api.run(code, opts) is sent to the new worker.
Run ==
  /\ Len(runner.calls) < MaxRuns
  /\ runner' = NewCall(start(stop(runner)))
  /\ WorkerFresh
  /\ last' = "main"
  /\ UNCHANGED <<replay, prog, editor>>

\* The answer of the worker reaches the main thread while call k awaits it:
\* Promise.race settles with it and run continues after its await with
\* running = false; stop(); return res (or throw e when api.run rejected).
Answer(k) ==
  /\ phase = "done"
  /\ runner.worker # 0
  /\ runner.calls[k].worker = runner.worker
  /\ runner.calls[k].outcome = "pending"
  /\ runner' = [stop(runner) EXCEPT
                  !.calls[k].outcome = IF apiRun.result.settled = "fulfilled"
                                       THEN "resolved" ELSE "rejected",
                  !.calls[k].delivered = (apiRun.result.settled = "fulfilled")]
  /\ WorkerGone
  /\ last' = "main"
  /\ UNCHANGED <<replay, prog, editor>>

\* The timer callback without stop().
Timeout_noStop(k) ==
  /\ runner.calls[k].timer = "armed"
  /\ runner' = [runner EXCEPT
                  !.calls[k].timer = "fired",
                  !.calls[k].outcome = IF @ = "pending" THEN "timeout" ELSE @]
  /\ last' = "main"
  /\ UNCHANGED <<rec, phase, liveAt, handed, replay, globals, apiRun, prog, editor>>

\* The timer of call k fires: clearTimeout(id); stop(); rej(new Error("Timeout...")).
\* The rejection settles the race only if call k is still pending; then run
\* continues in its catch block with running = false; stop(); throw e.
Timeout(k) ==
  /\ runner.calls[k].timer = "armed"
  /\ runner' = [stop(runner) EXCEPT
                  !.calls[k].timer = "fired",
                  !.calls[k].outcome = IF @ = "pending" THEN "timeout" ELSE @]
  /\ WorkerGone
  /\ last' = "main"
  /\ UNCHANGED <<replay, prog, editor>>

\* RunnerHandle.stop called by the owner of the handle.
Stop ==
  /\ runner.worker # 0
  /\ runner' = stop(runner)
  /\ WorkerGone
  /\ last' = "main"
  /\ UNCHANGED <<replay, prog, editor>>

NextRunner ==
  \/ Run
  \/ \E k \in 1..Len(runner.calls) : Answer(k)
  \/ \E k \in 1..Len(runner.calls) : Timeout(k)
  \/ Stop
  \/ \E n \in 0..MaxSnapshotEvery : RunBegin(n) /\ phase = "idle"
  \/ \E parses \in BOOLEAN : Instrument(parses)
  \/ ProgramHooks /\ Len(rec'.trace.events) <= MaxWorkerEvents
  \/ \E name \in ProgramGlobals : SetGlobal(name)
  \/ ProgramReturns
  \/ \E e \in ThrownValues : ProgramThrows(e)

SpecRunner == InitRunner /\ [][NextRunner]_vars

(***************************************************************************)
(* The EditorPane and its RunnerHandle.  The editor is mounted with the    *)
(* default sample; the user edits the code or picks a sample at any time;  *)
(* the debounce timer and the timers of the runs fire at any time after    *)
(* they were armed.                                                        *)
(***************************************************************************)
InitEditor ==
  /\ runner = NoRunner
  /\ prog = NoProgram
  /\ phase = "noWorker"
  /\ rec = NewRecorder(1)
  /\ last = "init"
  /\ liveAt = <<>>
  /\ handed = NewRecorder(1).trace
  /\ replay = NoReplay
  /\ globals = GlobalsWith({})
  /\ apiRun = [old |-> saveGlobals(GlobalsWith({})), before |-> GlobalsWith({}),
               opts |-> 1, result |-> PendingResult]
  /\ editor = [NoEditor EXCEPT !.debounce = TRUE]

\* The handler goes on as plan says with the runner rn: executeRun calls
\* runnerRef.current.run(codeToRun, 1000, ...) and awaits it, or the handler
\* returns.
Launch(plan, rn) ==
  IF plan.starts
  THEN /\ Len(rn.calls) < MaxEditorRuns
       /\ runner' = NewCall(start(stop(rn)))
       /\ editor' = [plan.editor EXCEPT
                       !.awaits = [j \in (DOMAIN plan.editor.awaits) \cup {Len(rn.calls) + 1} |->
                                     IF j = Len(rn.calls) + 1 THEN plan.codeToRun
                                     ELSE plan.editor.awaits[j]]]
       /\ WorkerFresh
  ELSE /\ runner' = rn
       /\ editor' = plan.editor
       /\ IF rn.worker = 0 /\ runner.worker # 0
          THEN WorkerGone
          ELSE UNCHANGED <<rec, phase, liveAt, handed, globals, apiRun>>

\* onChange of the editor: setCode(v). The effects set latestCodeRef and
\* restart the debounce timer.
SetCode(c) ==
  /\ editor.edits < MaxEdits
  /\ c # editor.code
  /\ editor' = [editor EXCEPT !.code = c, !.latestCode = c, !.debounce = TRUE,
                              !.edits = @ + 1]
  /\ last' = "setCode"
  /\ UNCHANGED <<rec, phase, liveAt, handed, replay, globals, apiRun, runner, prog>>

\* A click on a sample: setSampleCode(sample.code) sets code and increments
\* sampleRevision. The reset effect clears rerunRequestedRef and stops the
\* runner; the debounce effect runs only if code has changed.
SetSampleCode(c) ==
  /\ editor.edits < MaxEdits
  /\ Launch([starts |-> FALSE, codeToRun |-> c,
             editor |-> [editor EXCEPT !.code = c, !.latestCode = c,
                                       !.rerunRequested = FALSE,
                                       !.debounce = (c # editor.code) \/ @,
                                       !.edits = @ + 1]],
            stop(runner))
  /\ last' = "setSampleCode"
  /\ UNCHANGED <<replay, prog>>

\* The debounce timer fires: void requestRun().
RequestRun ==
  /\ editor.debounce
  /\ Launch(requestRun([editor EXCEPT !.debounce = FALSE]), runner)
  /\ last' = "requestRun"
  /\ UNCHANGED <<replay, prog>>

\* The answer of the worker settles call k: run continues with running =
\* false; stop(); return res, and executeRun and the loop of requestRun go on.
EditorAnswer(k) ==
  /\ k \in DOMAIN editor.awaits
  /\ phase = "done"
  /\ runner.worker # 0
  /\ runner.calls[k].worker = runner.worker
  /\ runner.calls[k].outcome = "pending"
  /\ Launch(executeRunSettled(editor, k),
            [stop(runner) EXCEPT
               !.calls[k].outcome = IF apiRun.result.settled = "fulfilled"
                                    THEN "resolved" ELSE "rejected",
               !.calls[k].delivered = (apiRun.result.settled = "fulfilled")])
  /\ last' = "main"
  /\ UNCHANGED <<replay, prog>>

\* The timer of call k fires: clearTimeout(id); stop(); rej(...). If call k
\* is pending, run continues in its catch block and executeRun in its own.
EditorTimeout(k) ==
  /\ k \in 1..Len(runner.calls)
  /\ runner.calls[k].timer = "armed"
  /\ Launch(IF runner.calls[k].outcome = "pending" /\ k \in DOMAIN editor.awaits
            THEN executeRunSettled(editor, k)
            ELSE [starts |-> FALSE, codeToRun |-> editor.latestCode, editor |-> editor],
            [stop(runner) EXCEPT
               !.calls[k].timer = "fired",
               !.calls[k].outcome = IF @ = "pending" THEN "timeout" ELSE @])
  /\ last' = "main"
  /\ UNCHANGED <<replay, prog>>

NextEditor ==
  \/ \E c \in Codes : SetCode(c)
  \/ \E c \in Codes : SetSampleCode(c)
  \/ RequestRun
  \/ \E k \in 1..MaxEditorRuns : EditorAnswer(k)
  \/ \E k \in 1..MaxEditorRuns : EditorTimeout(k)
  \/ RunBegin(MaxSnapshotEvery) /\ phase = "idle"
  \/ \E parses \in BOOLEAN : Instrument(parses)
  \/ ProgramReturns
  \/ \E e \in ThrownValues : ProgramThrows(e)

SpecEditor == InitEditor /\ [][NextEditor]_vars

\* The debounce timer and the timer of every run fire in the end.
SpecEditorFair ==
  /\ SpecEditor
  /\ WF_vars(RequestRun)
  /\ \A k \in 1..MaxEditorRuns : WF_vars(EditorTimeout(k))

(***************************************************************************)
(* One run of api.run on a source of Sources in a new worker: the source   *)
(* is instrumented, and the compiled code runs one top-level statement at  *)
(* a time; every hook call of a statement acts on the recorder.            *)
(***************************************************************************)
machineOf(r, p) ==
  [rec |-> r, hooked |-> TRUE, frames |-> p.frames, heap |-> p.heap,
   closures |-> p.closures, objects |-> p.objects, arrays |-> p.arrays]

InitProgram ==
  /\ \E i \in 1..Len(Sources) : prog = [NoProgram EXCEPT !.source = i]
  /\ globals = GlobalsWith({"console"})
  /\ rec = NewRecorder(1)
  /\ phase = "idle"
  /\ last = "init"
  /\ liveAt = <<>>
  /\ handed = NewRecorder(1).trace
  /\ replay = NoReplay
  /\ apiRun = [old |-> saveGlobals(globals), before |-> globals, opts |-> 1,
               result |-> PendingResult]
  /\ runner = NoRunner
  /\ editor = NoEditor

\* const compiled = instrument(code); const fn = new Function(...); fn() is
\* entered: the scope of the function body exists, no statement has run.
Compile ==
  /\ phase = "installed"
  /\ prog.source # 0
  /\ LET code == instrument(Sources[prog.source])
         m == enterScope(NewMachine(rec, TRUE), 0, code, EmptyMap)
     IN prog' = [prog EXCEPT !.code = code, !.pc = 0, !.frames = m.frames,
                             !.heap = m.heap, !.closures = m.closures,
                             !.completion = "normal"]
  /\ phase' = "running"
  /\ last' = "instrument"
  /\ UNCHANGED <<rec, liveAt, handed, replay, globals, apiRun, runner, editor>>

\* The next top-level statement of the compiled code runs to its completion.
Step ==
  /\ phase = "running"
  /\ prog.completion = "normal"
  /\ prog.pc < Len(prog.code)
  /\ LET c == ExecStmt(machineOf(rec, prog), 1, prog.code[prog.pc + 1])
     IN /\ rec' = c.m.rec
        /\ prog' = [prog EXCEPT !.pc = @ + 1, !.frames = c.m.frames, !.heap = c.m.heap,
                                !.closures = c.m.closures, !.objects = c.m.objects,
                                !.arrays = c.m.arrays, !.completion = c.c,
                                !.value = c.v]
  /\ last' = "call"
  /\ UNCHANGED <<phase, liveAt, handed, replay, globals, apiRun, runner, editor>>

NextProgram ==
  \/ \E n \in 0..MaxSnapshotEvery : RunBegin(n) /\ phase = "idle"
  \/ Compile
  \/ Step
  \/ ProgramReturns /\ prog.completion = "normal" /\ prog.pc = Len(prog.code)
  \/ ProgramThrows(prog.value) /\ prog.completion = "throw"

SpecProgram == InitProgram /\ [][NextProgram]_vars

(***************************************************************************)
(* Properties.                                                             *)
(***************************************************************************)
Steps == rec.trace.steps
Events == rec.trace.events
Snapshots == rec.trace.snapshots

\* events[deltaFrom, deltaTo) of steps[i], steps[i+1], ... concatenated
RECURSIVE ConcatSlices(_, _, _)
ConcatSlices(steps, events, i) ==
  IF i > Len(steps)
  THEN <<>>
  ELSE SubSeq(events, steps[i].deltaFrom + 1, steps[i].deltaTo)
         \o ConcatSlices(steps, events, i + 1)

\* Replay of steps 0..stepId from the empty step-0 snapshot only.
ReplayFromZero(trace, stepId) ==
  replaySteps(trace, cloneState(trace.snapshots[1].state).value, 0, stepId)

\* C1: snapshot transparency. For every step s closed by checkpointStep,
\* getStateAt (replay from the nearest snapshot) returns the HeapState that
\* replaying the events from the empty step-0 snapshot returns.
C1_SnapshotTransparency ==
  \A s \in 0..(Len(liveAt) - 1) :
    getStateAt(rec.trace, s).state = ReplayFromZero(rec.trace, s).state

\* C2: event coverage. In the TraceLog handed off at the end of a run, the
\* slices events[deltaFrom, deltaTo) of the steps, concatenated in order, are
\* the whole events array.
C2_EventCoverage ==
  phase = "done" => ConcatSlices(handed.steps, handed.events, 1) = handed.events

\* C3: replay agrees with the recorder. For every step s closed by the
\* (s+1)-th call of checkpointStep, getStateAt(trace, s) is the recorder's
\* live HeapState at that call.
C3_ReplayAgreesWithRecorder ==
  \A k \in 1..Len(liveAt) : getStateAt(rec.trace, k - 1).state = liveAt[k]

\* C4: idempotent, side-effect-free replay. After any sequence of getStateAt
\* calls on a handed-off trace, the trace (steps, events, every snapshot) is
\* as it was handed off, and the latest call returned what getStateAt returns
\* on the trace as handed off: two calls for one step return equal states.
C4_IdempotentReplay ==
  (phase = "done" /\ replay.calls > 0) =>
     /\ rec.trace = handed
     /\ ~replay.raised
     /\ replay.state = getStateAt(handed, replay.stepId).state

\* Two or more calls were made, the latest from a periodic snapshot, and it
\* returned a non-empty state.
C4_Witness ==
  /\ phase = "done"
  /\ replay.calls >= 2
  /\ findSnapshot(rec.trace, replay.stepId) > 1
  /\ DOMAIN replay.state.roots # {}

\* C5: alloc-before-write. Every write or delete event on an ObjId is
\* preceded in the events log by an alloc event for that ObjId, and a write
\* or del for an ObjId that names no live object appends no event.
C5_AllocBeforeWrite ==
  /\ [](\A i \in 1..Len(Events) :
          Events[i].t \in {"write", "delete"} =>
            \E j \in 1..(i - 1) : Events[j].t = "alloc" /\ Events[j].obj = Events[i].obj)
  /\ [][last' = "skip" => rec'.trace.events = rec.trace.events]_vars

\* The log holds a write and a delete event, and the latest call was a write
\* or del on an unknown ObjId.
C5_Witness ==
  /\ \E i \in 1..Len(Events) : Events[i].t = "write"
  /\ \E i \in 1..Len(Events) : Events[i].t = "delete"
  /\ last = "skip"

\* The identity-to-ObjId map is injective, and the log holds exactly one alloc
\* event per identity seen and none for any other ObjId.
C6_Mapping ==
  LET m == rec.objIdMap
  IN /\ \A p, q \in DOMAIN m : m[p] = m[q] => p = q
     /\ \A o \in DOMAIN m :
          Cardinality({i \in 1..Len(Events) :
                         Events[i].t = "alloc" /\ Events[i].obj = m[o]}) = 1
     /\ \A i \in 1..Len(Events) :
          Events[i].t = "alloc" => \E o \in DOMAIN m : m[o] = Events[i].obj

\* An identity keeps its ObjId, and __setVar of an object already seen stores
\* the ObjId it already has and appends the rootSet event only.
C6_Stable ==
  /\ \A o \in DOMAIN rec.objIdMap :
       o \in DOMAIN rec'.objIdMap /\ rec'.objIdMap[o] = rec.objIdMap[o]
  /\ \A name \in Names, val \in Known(rec), cp \in CheckpointIds :
       SetVar(name, val, cp) =>
         /\ rec'.state.roots[name] = [kind |-> "obj", id |-> rec.objIdMap[val]]
         /\ Len(rec'.trace.events) = Len(rec.trace.events) + 1

\* C6: identity preservation. ensureObjId gives the same ObjId every time it
\* sees the same identity and distinct ObjIds to distinct identities, an
\* ObjId once assigned is never given to another object, exactly one alloc
\* event is emitted per identity, and aliasing (b = a) reuses the ObjId.
C6_IdentityPreservation == [] C6_Mapping /\ [][C6_Stable]_vars

\* Roots a and b hold the same ObjId (b = a) and the log has one alloc event.
C6_Witness ==
  /\ {"a", "b"} \subseteq DOMAIN rec.state.roots
  /\ rec.state.roots["a"] = [kind |-> "obj", id |-> "o1"]
  /\ rec.state.roots["b"] = rec.state.roots["a"]
  /\ Cardinality({i \in 1..Len(Events) : Events[i].t = "alloc"}) = 1

\* C7: step list shape. trace.steps is never empty, and after k >= 1 calls of
\* checkpointStep it has exactly k entries with steps[i].stepId = i.
C7_StepListShape ==
  /\ Len(Steps) >= 1
  /\ Len(liveAt) >= 1 =>
       /\ Len(Steps) = Len(liveAt)
       /\ \A i \in 1..Len(Steps) : Steps[i].stepId = i - 1

\* C8: a step-0 snapshot always exists. snapshots[0] is {at: 0, empty state}
\* in every reachable state, and findSnapshot returns a snapshot with
\* at <= stepId for every stepId >= 0.
C8_StepZeroSnapshot ==
  /\ Len(Snapshots) >= 1
  /\ Snapshots[1] = [at |-> 0, state |-> EmptyState]
  /\ \A s \in 0..(MaxSteps + 1) :
       /\ findSnapshot(rec.trace, s) >= 1
       /\ Snapshots[findSnapshot(rec.trace, s)].at <= s

\* Periodic snapshots were appended after the step-0 snapshot, of a state
\* that is not empty.
C8_Witness ==
  /\ Len(Snapshots) >= 3
  /\ Snapshots[3].state # EmptyState

\* C9: silent skip. write and del with an ObjId that is not in the live heap
\* leave the whole recorder unchanged: objects, roots, lastWrite, events,
\* steps, snapshots and the step counter.
C9_SilentSkip == [][last' = "skip" => rec' = rec]_vars

\* The latest call was a write or del on an unknown ObjId, made on a recorder
\* that holds an object, events and a closed step.
C9_Witness ==
  /\ last = "skip"
  /\ DOMAIN rec.state.objects # {}
  /\ rec.stepId >= 1
  /\ Len(Events) >= 2

\* C10: out-of-range replay. getStateAt on a recorder-produced trace does not
\* raise; for a negative stepId it returns the empty initial snapshot state,
\* for a stepId beyond the last step the state of the last step.
C10_OutOfRange ==
  replay.calls > 0 =>
    /\ ~replay.raised
    /\ replay.stepId < 0 => replay.state = EmptyState
    /\ replay.stepId >= Len(Steps) =>
         replay.state = getStateAt(rec.trace, Len(Steps) - 1).state

\* getStateAt was called beyond the last step of a trace with two closed
\* steps and returned a state that is not empty.
C10_Witness ==
  /\ replay.calls > 0
  /\ replay.stepId >= Len(Steps)
  /\ Len(liveAt) >= 2
  /\ replay.state # EmptyState

\* The recorder invariants on a TraceLog: steps is not empty, snapshots[0] is
\* the empty step-0 snapshot, every write or delete event follows the alloc
\* event of its ObjId.
TraceInvariants(trace) ==
  /\ Len(trace.steps) >= 1
  /\ Len(trace.snapshots) >= 1
  /\ trace.snapshots[1] = [at |-> 0, state |-> EmptyState]
  /\ \A i \in 1..Len(trace.events) :
       trace.events[i].t \in {"write", "delete"} =>
         \E j \in 1..(i - 1) :
            trace.events[j].t = "alloc" /\ trace.events[j].obj = trace.events[i].obj

\* C11: a runtime exception keeps the partial trace. When the traced program
\* throws, api.run returns (its promise is fulfilled with) a RunResult with
\* ok = false, a structured error, and the recorder's TraceLog as it was at
\* the throw, which satisfies the recorder invariants.
C11_PartialTrace ==
  last = "thrown" =>
    /\ apiRun.result.settled = "fulfilled"
    /\ ~apiRun.result.ok
    /\ apiRun.result.error.name # ""
    /\ apiRun.result.trace = rec.trace
    /\ TraceInvariants(apiRun.result.trace)

\* No hook is called between the start of api.run and a parse failure.
C12_NoExecution == last' = "parseError" => last = "begin" /\ rec' = rec

\* After a parse failure the RunResult has ok = false, and its trace is the
\* trace of the recorder as constructed: no delta event, no call event, and
\* the placeholder step only.
C12_EmptyTrace ==
  last = "parseError" =>
    /\ apiRun.result.settled = "fulfilled"
    /\ ~apiRun.result.ok
    /\ rec = NewRecorder(apiRun.opts)
    /\ apiRun.result.trace.events = <<>>
    /\ apiRun.result.trace.callEvents = <<>>
    /\ apiRun.result.trace.steps =
         << [stepId |-> 0, checkpointId |-> "__init__", varNames |-> <<>>,
             deltaFrom |-> 0, deltaTo |-> 0] >>

\* C12: a parse failure is fatal before any execution. If instrument() fails,
\* no part of the program has run and no hook was invoked, and the run's
\* result carries no delta event, no call event and no step derived from the
\* program.
C12_ParseFailure == [] C12_EmptyTrace /\ [][C12_NoExecution]_vars

\* A run ended with a parse failure and a SyntaxError result, in a worker
\* where __val was bound before the run.
C12_Witness ==
  /\ last = "parseError"
  /\ apiRun.result.error.name = "SyntaxError"
  /\ apiRun.before["__val"] = "prior"

\* C14: hook installation is undone on every exit path. Whenever api.run is
\* not executing (before a run, and after it returned or threw), each of
\* __checkpoint, __val, __writeProp, __deleteProp, __setVar, __deleteVar,
\* __callEnter, __callExit and console has the value it had immediately
\* before the run; during the run they are the run's hooks.
C14_HooksRestored ==
  /\ phase \in {"idle", "done"} =>
       \A b \in GlobalNames : globals[b] = apiRun.before[b]
  /\ phase \in {"installed", "running"} =>
       \A b \in GlobalNames : globals[b] = installHooks(apiRun.before)[b]

\* A run in which hooks were called left api.run by an exception of the catch
\* block, in a worker where some of the names were bound before the run and
\* others were not.
C14_Witness ==
  /\ phase = "done"
  /\ apiRun.result.settled = "rejected"
  /\ Len(rec.trace.events) >= 1
  /\ apiRun.before["__setVar"] = "prior"
  /\ apiRun.before["__deleteVar"] = "undefined"

\* A call that was rejected by its timeout has no live worker and no
\* delivered TraceLog.
C13_Discarded ==
  \A k \in 1..Len(runner.calls) :
    runner.calls[k].outcome = "timeout" =>
      /\ runner.calls[k].worker \notin runner.alive
      /\ ~runner.calls[k].delivered

\* A timer that fires while its call is pending rejects the call with the
\* timeout error and leaves the worker of the call terminated; a call once
\* rejected by its timeout stays so.
C13_Step ==
  \A k \in 1..Len(runner.calls) :
    /\ (runner.calls[k].outcome = "pending" /\ runner.calls[k].timer = "armed"
          /\ runner'.calls[k].timer = "fired") =>
         /\ runner'.calls[k].outcome = "timeout"
         /\ runner.calls[k].worker \notin runner'.alive
    /\ runner.calls[k].outcome = "timeout" =>
         /\ runner'.calls[k].outcome = "timeout"
         /\ ~runner'.calls[k].delivered

\* C13: timeout discards the trace. If the worker has not answered when the
\* timer of a run fires, RunnerHandle.run terminates that worker and rejects
\* with the timeout error, and no TraceLog of that run is delivered to the
\* caller at any later time.
C13_TimeoutDiscards == [] C13_Discarded /\ [][C13_Step]_vars

\* The first of two calls was rejected by its timeout; the second call has
\* resolved and its trace was delivered.
C13_Witness ==
  /\ Len(runner.calls) = 2
  /\ runner.calls[1].outcome = "timeout"
  /\ runner.calls[2].outcome = "resolved"
  /\ runner.calls[2].delivered

\* When api.run begins, the recorder is the one new CheckpointRecorder builds
\* from the options of this run, and the worker's globals are those of a new
\* worker: nothing of an earlier run is left.
C15_FreshStart ==
  phase = "installed" =>
    /\ rec = NewRecorder(apiRun.opts)
    /\ rec.objIdSeq = 1 /\ rec.stepId = 0
    /\ apiRun.before = GlobalsWith({"console"})
    /\ runner.worker = runner.spawned
    /\ \A k \in 1..(Len(runner.calls) - 1) : runner.calls[k].worker # runner.worker

\* The TraceLog delivered to a call is the trace of the recorder of the
\* worker that the call started: its steps start at 0 and its first alloc
\* event is for o1.
C15_OwnTrace ==
  \A k \in 1..Len(runner.calls) :
    (runner.calls[k].outcome = "pending" /\ runner'.calls[k].outcome = "resolved") =>
      /\ runner.calls[k].worker = runner.worker
      /\ runner'.calls[k].delivered
      /\ apiRun.result.trace = rec.trace
      /\ rec.trace.steps[1].stepId = 0
      /\ \A i \in 1..Len(rec.trace.events) :
           (rec.trace.events[i].t = "alloc"
              /\ \A j \in 1..(i - 1) : rec.trace.events[j].t # "alloc")
             => rec.trace.events[i].obj = "o1"

RECURSIVE boundNames(_, _)
boundNames(stmts, i) ==
  IF i > Len(stmts)
  THEN {}
  ELSE (CASE stmts[i].t \in {"VariableDeclaration", "FunctionDeclaration"} -> {stmts[i].name}
          [] stmts[i].t = "TryStatement" ->
               boundNames(stmts[i].block, 1) \cup boundNames(stmts[i].finalizer, 1)
          [] OTHER -> {})
       \cup boundNames(stmts, i + 1)

\* The local names of the function called fnName that the source of the run
\* declares at its top level: its parameters and the names bound in its body.
LocalNames(fnName) ==
  LET source == Sources[prog.source]
  IN UNION { {source[i].params[k] : k \in 1..Len(source[i].params)}
               \cup boundNames(source[i].body, 1) :
             i \in {j \in 1..Len(source) : source[j].t = "FunctionDeclaration"
                                             /\ source[j].name = fnName} }

\* The call events that a step adds to the trace.
NewCallEvents ==
  {rec'.trace.callEvents[k] :
     k \in (Len(rec.trace.callEvents) + 1)..Len(rec'.trace.callEvents)}

\* When a statement that called functions has completed, normally or by an
\* exception, every function that was entered has its call-exit event and
\* none of the local names of those functions is a live root.
C16_Step ==
  (prog'.source # 0 /\ Len(rec'.trace.callEvents) > Len(rec.trace.callEvents)) =>
    \A e \in NewCallEvents :
      /\ \E x \in NewCallEvents : x.kind = "exit" /\ x.fnName = e.fnName
      /\ LocalNames(e.fnName) \cap DOMAIN rec'.state.roots = {}

\* C16: frame-local cleanup. When an instrumented function exits, normally
\* or by a thrown exception, its finally block emits the call-exit event and
\* a rootDel for each of its parameters and local variables, so after the
\* call none of that function's local names is among the live roots.
C16_FrameCleanup == [][C16_Step]_vars

\* The run of the source has executed every statement of the compiled code.
Finished == prog.source # 0 /\ prog.completion = "normal" /\ prog.pc = Len(prog.code)

\* The object and array literals that the source of the run declares at its
\* top level.
Literals ==
  LET source == Sources[prog.source]
  IN {source[i].init : i \in {j \in 1..Len(source) :
                                 /\ source[j].t = "VariableDeclaration"
                                 /\ source[j].hasInit
                                 /\ source[j].init.t \in {"ObjectExpression", "ArrayExpression"}}}

\* The write events recorded for the literal lit, in log order.
WritesOf(lit) ==
  SelectSeq(rec.trace.events, LAMBDA e : e.t = "write" /\ e.checkpointId = lit.start)

\* The position in the log of the first event that satisfies P.
FirstEvent(P(_)) ==
  CHOOSE i \in 1..Len(rec.trace.events) :
    P(rec.trace.events[i]) /\ \A j \in 1..(i - 1) : ~P(rec.trace.events[j])

\* C17: literal ordering. For an object or array literal the alloc event of
\* the new object is emitted before any write event of its fields, the field
\* values are evaluated in source order, and the write events appear in
\* source order; for const o = {a: s1(), b: s2()} the log order is alloc(o),
\* the events of s1, write a, the events of s2, write b.
C17_LiteralOrdering ==
  prog.source # 0 =>
    /\ \A j \in 1..Len(rec.trace.events) :
         rec.trace.events[j].t = "write" =>
           \E i \in 1..(j - 1) : /\ rec.trace.events[i].t = "alloc"
                                 /\ rec.trace.events[i].obj = rec.trace.events[j].obj
    /\ \A lit \in Literals :
         /\ Len(WritesOf(lit)) <= Len(propertiesOf(lit))
         /\ Finished => Len(WritesOf(lit)) = Len(propertiesOf(lit))
         /\ \A k \in 1..Len(WritesOf(lit)) :
              /\ WritesOf(lit)[k].key = propertiesOf(lit)[k].key
              /\ WritesOf(lit)[k].obj = WritesOf(lit)[1].obj
    /\ (Finished /\ prog.source = 6) =>
         LET alloc_o == FirstEvent(LAMBDA e : e.t = "alloc" /\ e.objKind = "object")
             s1 == FirstEvent(LAMBDA e : e.t = "rootSet" /\ e.name = "p")
             write_a == FirstEvent(LAMBDA e : e.t = "write" /\ e.key = "a")
             s2 == FirstEvent(LAMBDA e : e.t = "rootSet" /\ e.name = "q")
             write_b == FirstEvent(LAMBDA e : e.t = "write" /\ e.key = "b")
         IN /\ alloc_o < s1 /\ s1 < write_a /\ write_a < s2 /\ s2 < write_b
            /\ rec.trace.events[write_a].obj = rec.trace.events[alloc_o].obj
            /\ rec.trace.events[write_b].obj = rec.trace.events[alloc_o].obj
    /\ (Finished /\ prog.source = 7) =>
         LET alloc_a == FirstEvent(LAMBDA e : e.t = "alloc" /\ e.objKind = "array")
             s1 == FirstEvent(LAMBDA e : e.t = "rootSet" /\ e.name = "p")
             write_0 == FirstEvent(LAMBDA e : e.t = "write" /\ e.key = "0")
             write_1 == FirstEvent(LAMBDA e : e.t = "write" /\ e.key = "1")
         IN /\ alloc_a < s1 /\ s1 < write_0 /\ write_0 < write_1
            /\ rec.trace.events[write_0].obj = rec.trace.events[alloc_a].obj

\* The run of const o = {a: s1(), b: s2()} has finished: both functions were
\* called and both fields of the literal were written.
C17_Witness ==
  /\ Finished
  /\ prog.source = 6
  /\ Len(rec.trace.callEvents) = 4
  /\ \E i \in 1..Len(rec.trace.events) :
       rec.trace.events[i].t = "write" /\ rec.trace.events[i].key = "b"

\* C18: end to end. Running const x = 1; const y = {a: x}; y.a = 2; gives a
\* trace whose state at the last step has roots exactly {x: prim 1, y: obj O},
\* objects[O].props exactly {a: prim 2}, and lastWrite of O.a at the step
\* that the checkpoint of the assignment y.a = 2 closed.
C18_EndToEnd ==
  (phase = "done" /\ prog.source = 1) =>
    LET trace == apiRun.result.trace
        lastStep == trace.steps[Len(trace.steps)]
        g == getStateAt(trace, lastStep.stepId)
        O == g.state.roots["y"].id
    IN /\ apiRun.result.settled = "fulfilled"
       /\ apiRun.result.ok
       /\ ~g.raised
       /\ DOMAIN g.state.roots = {"x", "y"}
       /\ g.state.roots["x"] = [kind |-> "prim", v |-> "1"]
       /\ g.state.roots["y"].kind = "obj"
       /\ DOMAIN g.state.objects = {O}
       /\ DOMAIN g.state.objects[O].props = {"a"}
       /\ g.state.objects[O].props["a"] = [kind |-> "prim", v |-> "2"]
       /\ lastStep.checkpointId = "L1:39"
       /\ \A k \in 1..(Len(trace.steps) - 1) : trace.steps[k].checkpointId # "L1:39"
       /\ g.state.lastWrite[lastWriteKey(O, "a")].stepId = lastStep.stepId

\* The run of const x = 1; const y = {a: x}; y.a = 2; has returned its
\* RunResult with a trace of two steps and five events.
C18_Witness ==
  /\ phase = "done"
  /\ prog.source = 1
  /\ apiRun.result.ok
  /\ Len(apiRun.result.trace.steps) = 2
  /\ Len(apiRun.result.trace.events) = 5

\* The same source as it was written, run without instrumentation.
Original == runFunction(NewMachine(NewRecorder(1), FALSE), Sources[prog.source])

\* The variables of the function body that new Function built.
TopScope == prog.frames[1].vars

\* C19: instrumentation does not alter return values. An instrumented
\* delete obj.k evaluates to the same value as the original delete expression
\* (true when the deletion succeeds), and an instrumented assignment or
\* declaration initialiser evaluates to the assigned value: the variable r
\* that a source initialises with such an expression has the value that it
\* has when the source runs as written.
C19_ReturnValues ==
  (Finished /\ "r" \in DOMAIN TopScope) =>
    /\ Original.c = "normal"
    /\ TopScope["r"] = Original.m.frames[1].vars["r"]

\* The run of the compiled code has ended, by a return or by an exception.
Ended == prog.source # 0 /\ (Finished \/ prog.completion = "throw")

\* C20: instrumentation does not alter thrown exceptions. A property
\* assignment obj.k = v that throws in the original program (the base is null
\* or undefined) throws the same exception in the instrumented program, where
\* it is routed through __writeProp: a source that throws when it runs as
\* written throws the same value when its compiled code runs.
C20_ThrownExceptions ==
  (Ended /\ Original.c = "throw") =>
    /\ prog.completion = "throw"
    /\ prog.value = Original.v

\* C21: callEnter and callExit each append exactly one CallEvent whose stepId
\* is the recorder's current step counter, and leave HeapState (objects,
\* roots, lastWrite), the events log, steps, snapshots and the step counter
\* unchanged.
C21_CallEvents ==
  [][last' \in {"enter", "exit"} =>
       /\ Len(rec'.trace.callEvents) = Len(rec.trace.callEvents) + 1
       /\ SubSeq(rec'.trace.callEvents, 1, Len(rec.trace.callEvents)) = rec.trace.callEvents
       /\ rec'.trace.callEvents[Len(rec'.trace.callEvents)].stepId = rec.stepId
       /\ rec'.trace.callEvents[Len(rec'.trace.callEvents)].kind = last'
       /\ rec'.state = rec.state
       /\ rec'.trace.events = rec.trace.events
       /\ rec'.trace.steps = rec.trace.steps
       /\ rec'.trace.snapshots = rec.trace.snapshots
       /\ rec'.stepId = rec.stepId
       /\ rec'.stepStartEventIndex = rec.stepStartEventIndex]_vars

\* A call event was appended in step 1 or later to a recorder whose heap
\* holds a root and whose log holds events.
C21_Witness ==
  /\ last \in {"enter", "exit"}
  /\ rec.stepId >= 1
  /\ rec.trace.callEvents[Len(rec.trace.callEvents)].stepId = rec.stepId
  /\ DOMAIN rec.state.roots # {}
  /\ Len(rec.trace.events) >= 1


\* C22: primitive values are kept exact through snapshots. A primitive
\* ValueRef stored by write or rootSet (NaN and bigint included) is returned
\* with the same value by getStateAt at every later step where it has not been
\* overwritten, whether or not a snapshot lies in between, and taking a
\* snapshot never fails because of the values in the heap.
C22_PrimitivesExact ==
  /\ last # "throw"
  /\ \A k \in 1..Len(liveAt) :
       LET live == liveAt[k]
           got == getStateAt(rec.trace, k - 1).state
       IN /\ \A n \in DOMAIN live.roots :
               live.roots[n].kind = "prim" =>
                 n \in DOMAIN got.roots /\ got.roots[n] = live.roots[n]
          /\ \A o \in DOMAIN live.objects : \A key \in DOMAIN live.objects[o].props :
               live.objects[o].props[key].kind = "prim" =>
                 /\ o \in DOMAIN got.objects
                 /\ key \in DOMAIN got.objects[o].props
                 /\ got.objects[o].props[key] = live.objects[o].props[key]


\* The assignment expressions (operator "=") of a statement list, those of
\* the function bodies included.
RECURSIVE AssignmentsIn(_)
AssignmentsIn(stmts) ==
  IF Len(stmts) = 0
  THEN {}
  ELSE LET node == Head(stmts)
           here == CASE node.t = "ExpressionStatement" /\ node.expression.t = "AssignmentExpression"
                          -> {node.expression}
                     [] node.t = "VariableDeclaration" /\ node.init.t = "AssignmentExpression"
                          -> {node.init}
                     [] node.t = "FunctionDeclaration" -> AssignmentsIn(node.body)
                     [] OTHER -> {}
       IN here \cup AssignmentsIn(Tail(stmts))

\* The positions in the log of the events that the assignment a recorded.
EventsOfAssignment(a) ==
  {i \in 1..Len(rec.trace.events) :
     /\ rec.trace.events[i].t = (IF a.left.t = "MemberExpression" THEN "write" ELSE "rootSet")
     /\ rec.trace.events[i].checkpointId = a.end
     /\ IF a.left.t = "MemberExpression"
        THEN rec.trace.events[i].key = a.left.property
        ELSE rec.trace.events[i].name = a.left.name}

\* C23: checkpoint after evaluation. An instrumented assignment x = v or
\* obj.k = v first performs the recorded rootSet/write and only then calls
\* __checkpoint with the id of the assignment: the event is the last one of
\* the delta range of a step whose checkpointId is that id, the lastWrite
\* entry written by the assignment carries the stepId of that step, and the
\* wrapper evaluates to the value that the assignment has in the source.
C23_CheckpointAfterEvaluation ==
  prog.source # 0 =>
    /\ \A a \in AssignmentsIn(Sources[prog.source]) : \A i \in EventsOfAssignment(a) :
         LET e == rec.trace.events[i]
             key == IF e.t = "write" THEN lastWriteKey(e.obj, e.key) ELSE rootWriteKey(e.name)
         IN /\ e.val = [kind |-> "prim", v |-> a.right.v]
            /\ \E k \in 1..Len(rec.trace.steps) :
                 LET meta == rec.trace.steps[k]
                     g == getStateAt(rec.trace, meta.stepId)
                 IN /\ meta.checkpointId = a.end
                    /\ meta.stepId = k - 1
                    /\ meta.deltaFrom < i
                    /\ meta.deltaTo = i
                    /\ ~g.raised
                    /\ key \in DOMAIN g.state.lastWrite
                    /\ g.state.lastWrite[key] = [stepId |-> meta.stepId, checkpointId |-> a.end]
    /\ (Finished /\ prog.source \in {9, 10}) =>
         /\ Original.c = "normal"
         /\ TopScope["r"] = Original.m.frames[1].vars["r"]
         /\ TopScope["r"] = "2"

\* The run of const o = {k: 1}; const r = (o.k = 2); has finished: the
\* assignment recorded its write, a step with its id was closed, and r was
\* initialised with the value of the wrapper.
C23_Witness ==
  /\ Finished
  /\ prog.source = 10
  /\ "r" \in DOMAIN TopScope
  /\ \E a \in AssignmentsIn(Sources[prog.source]) :
       /\ EventsOfAssignment(a) # {}
       /\ \E k \in 1..Len(rec.trace.steps) : rec.trace.steps[k].checkpointId = a.end


\* C24: checkpointStep called when the step counter is k records a StepMeta
\* with stepId = k, deltaFrom = the events length at the previous boundary and
\* deltaTo = the current events length, appends no DeltaEvent, does not change
\* HeapState, increases the step counter by exactly 1, and appends a snapshot
\* {at: k, state: copy of the live state} if and only if
\* (k + 1) mod max(1, N) = 0.
C24_CheckpointStep ==
  [][Len(liveAt') = Len(liveAt) + 1 =>
       LET k == rec.stepId
           boundary == rec.trace.steps[Len(rec.trace.steps)].deltaTo
           meta == rec'.trace.steps[Len(rec'.trace.steps)]
       IN /\ meta.stepId = k
          /\ meta.checkpointId \in CheckpointIds
          /\ meta.deltaFrom = boundary
          /\ meta.deltaTo = Len(rec.trace.events)
          /\ Len(rec'.trace.steps) = (IF k = 0 THEN 1 ELSE Len(rec.trace.steps) + 1)
          /\ rec'.trace.events = rec.trace.events
          /\ rec'.state = rec.state
          /\ rec'.stepId = k + 1
          /\ rec'.trace.snapshots =
               IF (k + 1) % rec.snapshotEvery = 0
               THEN Append(rec.trace.snapshots, [at |-> k, state |-> rec.state])
               ELSE rec.trace.snapshots]_vars


\* C25: live root names are consistent with replay. For every closed step s
\* of a recorder-produced trace, steps[s].varNames is the sorted list of
\* exactly the root names present in getStateAt(trace, s).roots.
C25_VarNames ==
  \A s \in 0..(Len(liveAt) - 1) :
    LET g == getStateAt(rec.trace, s)
    IN /\ ~g.raised
       /\ rec.trace.steps[s + 1].varNames = SortedNames(DOMAIN g.state.roots)


\* C26: bounded replay. getStateAt selects the snapshot with the largest
\* at <= stepId (the later one when two snapshots share the same at), and for
\* a trace recorded with snapshot interval N and any in-range stepId the
\* number of steps whose events it re-applies, stepId - at + 1, is at most N.
C26_BoundedReplay ==
  \A stepId \in 0..(Len(rec.trace.steps) - 1) :
    LET snapshots == rec.trace.snapshots
        snap == findSnapshot(rec.trace, stepId)
    IN /\ snap \in 1..Len(snapshots)
       /\ snapshots[snap].at <= stepId
       /\ \A i \in 1..Len(snapshots) :
            snapshots[i].at <= stepId =>
              \/ snapshots[i].at < snapshots[snap].at
              \/ snapshots[i].at = snapshots[snap].at /\ i <= snap
       /\ stepId - snapshots[snap].at + 1 <= rec.snapshotEvery


\* The sequence a is an initial part of the sequence b.
GrowsTo(a, b) == Len(a) <= Len(b) /\ SubSeq(b, 1, Len(a)) = a

\* C27: append-only log with contiguous ranges, in every reachable recorder
\* state. events, snapshots and callEvents only grow by appending and steps
\* only grows by appending after the single in-place overwrite of placeholder
\* step 0; steps[0].deltaFrom = 0, steps[i+1].deltaFrom = steps[i].deltaTo and
\* deltaFrom <= deltaTo <= events.length for every step, so the events not
\* covered by a closed step are exactly a suffix of the log.
C27_AppendOnlyLog ==
  /\ [](LET steps == rec.trace.steps
        IN /\ Len(steps) >= 1
           /\ steps[1].deltaFrom = 0
           /\ \A i \in 1..(Len(steps) - 1) : steps[i + 1].deltaFrom = steps[i].deltaTo
           /\ \A i \in 1..Len(steps) :
                /\ steps[i].deltaFrom <= steps[i].deltaTo
                /\ steps[i].deltaTo <= Len(rec.trace.events)
           /\ ConcatSlices(steps, rec.trace.events, 1) =
                SubSeq(rec.trace.events, 1, steps[Len(steps)].deltaTo))
  /\ [][/\ GrowsTo(rec.trace.events, rec'.trace.events)
        /\ GrowsTo(rec.trace.snapshots, rec'.trace.snapshots)
        /\ GrowsTo(rec.trace.callEvents, rec'.trace.callEvents)
        /\ \/ GrowsTo(rec.trace.steps, rec'.trace.steps)
           \/ /\ Len(rec.trace.steps) = 1
              /\ rec.trace.steps[1].checkpointId = "__init__"
              /\ Len(rec'.trace.steps) = 1]_vars


\* Every ValueRef of kind obj in a root or in the props of an object names an
\* ObjId of objects.
NoDanglingRefs(state) ==
  /\ \A n \in DOMAIN state.roots :
       state.roots[n].kind = "obj" => state.roots[n].id \in DOMAIN state.objects
  /\ \A o \in DOMAIN state.objects : \A key \in DOMAIN state.objects[o].props :
       state.objects[o].props[key].kind = "obj" =>
         state.objects[o].props[key].id \in DOMAIN state.objects

\* C28: no dangling references. When the recorder is driven only through the
\* runtime hooks, every ValueRef of kind obj stored in a root or in an
\* object's props refers to an ObjId present in objects, both in the
\* recorder's live state after every hook call and in getStateAt(trace, s)
\* for every closed step s.
C28_NoDanglingRefs ==
  /\ NoDanglingRefs(rec.state)
  /\ \A s \in 0..(Len(liveAt) - 1) :
       LET g == getStateAt(rec.trace, s)
       IN ~g.raised /\ NoDanglingRefs(g.state)

\* A closed step whose replayed state has a root that refers to an object and
\* an object whose field refers to an object.
C28_Witness ==
  /\ Len(liveAt) >= 1
  /\ LET state == getStateAt(rec.trace, Len(liveAt) - 1).state
     IN /\ \E n \in DOMAIN state.roots : state.roots[n].kind = "obj"
        /\ \E o \in DOMAIN state.objects : \E key \in DOMAIN state.objects[o].props :
             state.objects[o].props[key].kind = "obj"


\* The event e is a mutation of the field or root that the lastWrite key k
\* names.
Mutates(e, k) ==
  \/ e.t \in {"write", "delete"} /\ k = lastWriteKey(e.obj, e.key)
  \/ e.t \in {"rootSet", "rootDel"} /\ k = rootWriteKey(e.name)

\* The delta range of steps[s] holds a mutation of k.
StepMutates(trace, s, k) ==
  \E i \in (trace.steps[s + 1].deltaFrom + 1)..trace.steps[s + 1].deltaTo :
    i \in DOMAIN trace.events /\ Mutates(trace.events[i], k)

\* C29: lastWrite points at the latest mutation. For every recorder-produced
\* trace, closed step s and key k of getStateAt(trace, s).lastWrite, the
\* entry's stepId is <= s, the delta range of that step contains a
\* write/delete on the object field (or rootSet/rootDel on the root) named by
\* k, and no step after it and up to s contains such an event.
C29_LastWrite ==
  \A s \in 0..(Len(liveAt) - 1) :
    LET g == getStateAt(rec.trace, s)
    IN /\ ~g.raised
       /\ \A k \in DOMAIN g.state.lastWrite :
            LET w == g.state.lastWrite[k].stepId
            IN /\ w <= s
               /\ StepMutates(rec.trace, w, k)
               /\ \A later \in (w + 1)..s : ~StepMutates(rec.trace, later, k)


\* The enter events of the prefix of length n that no exit of the prefix
\* has matched, oldest first: an exit removes the most recent one.
RECURSIVE OpenCalls(_, _)
OpenCalls(callEvents, n) ==
  IF n = 0
  THEN <<>>
  ELSE LET open == OpenCalls(callEvents, n - 1)
       IN IF callEvents[n].kind = "enter"
          THEN Append(open, callEvents[n].fnName)
          ELSE IF Len(open) = 0 THEN <<>> ELSE SubSeq(open, 1, Len(open) - 1)

\* C30: call events are well nested. In the callEvents of every run that was
\* not forcibly terminated, each prefix has at least as many enter as exit
\* events, every exit carries the fnName of the most recent unmatched enter,
\* the sequence is balanced at the end of the run even when functions exit by
\* exception, and stepId is non-decreasing along the sequence.
C30_WellNested ==
  LET callEvents == rec.trace.callEvents
  IN /\ \A n \in 1..Len(callEvents) :
          callEvents[n].kind = "exit" =>
            LET open == OpenCalls(callEvents, n - 1)
            IN Len(open) >= 1 /\ open[Len(open)] = callEvents[n].fnName
     /\ \A n \in 1..(Len(callEvents) - 1) : callEvents[n].stepId <= callEvents[n + 1].stepId
     /\ Ended => OpenCalls(callEvents, Len(callEvents)) = <<>>

\* C31: in the TraceLog handed off at the end of a run, every CallEvent's
\* stepId is the stepId of an entry of trace.steps (stepId < steps.length).
C31_CallEventsReferenceSteps ==
  (phase = "done" /\ Ended) =>
    \A n \in 1..Len(handed.callEvents) :
      \E s \in 1..Len(handed.steps) :
        handed.steps[s].stepId = handed.callEvents[n].stepId

\* The names that the source of the run assigns with an assignment expression.
AssignedNames ==
  {a.left.name : a \in {x \in AssignmentsIn(Sources[prog.source]) : x.left.t = "Identifier"}}

\* A top-level statement that entered a function leaves in place every root
\* that existed before it and that the source does not assign.
C32_Step ==
  (last' = "call" /\ Len(rec'.trace.callEvents) > Len(rec.trace.callEvents)) =>
    \A n \in (DOMAIN rec.state.roots) \ AssignedNames :
      /\ n \in DOMAIN rec'.state.roots
      /\ rec'.state.roots[n] = rec.state.roots[n]

\* C32: a call does not disturb outer roots. Calling an instrumented function
\* leaves unchanged every root binding that existed before the call and that
\* the program does not assign during the call, including a top-level or
\* caller binding whose name equals the name of one of the callee's
\* parameters or local variables.
C32_OuterRoots == [][C32_Step]_vars

\* The timer callback of call k terminates no worker other than the one
\* that call k started.
C33_Step ==
  \A k \in 1..Len(runner.calls) :
    (/\ Len(runner'.calls) = Len(runner.calls)
     /\ runner.calls[k].timer = "armed"
     /\ runner'.calls[k].timer = "fired") =>
      /\ (runner.alive \ runner'.alive) \subseteq {runner.calls[k].worker}
      /\ \A j \in (k + 1)..Len(runner.calls) :
           runner'.calls[j].outcome = runner.calls[j].outcome

\* C33: a run's timeout timer affects only its own run. For any sequence of
\* RunnerHandle.run calls on one handle, the timer armed by run k never
\* terminates the worker of a later run and never makes a later run fail; a
\* run that settled before its timeout has no effect on a run started
\* afterwards.
C33_OwnTimer == [][C33_Step]_vars

\* At most one executeRun awaits a run, and at most one worker is alive.
C34_OneInFlight ==
  /\ Cardinality(DOMAIN editor.awaits) <= 1
  /\ Cardinality(runner.alive) <= 1
  /\ (DOMAIN editor.awaits # {}) => editor.runInFlight

\* A request that arrives while a run is in flight starts no run.
C34_Step ==
  (last' = "requestRun" /\ editor.runInFlight) =>
    /\ runner' = runner
    /\ editor'.awaits = editor.awaits
    /\ editor'.rerunRequested

\* C34: runs are serialised by the editor. Under any interleaving of
\* requestRun calls (debounced edits) and run completions, at most one
\* executeRun (and at most one live worker) is in flight at any time; a
\* request arriving while a run is in flight does not start a second
\* concurrent run.
C34_Serialised == [] C34_OneInFlight /\ [][C34_Step]_vars

\* A request has arrived while an executeRun awaited its run on a live
\* worker, and was put off.
C34_Witness ==
  /\ last = "requestRun"
  /\ editor.rerunRequested
  /\ editor.runInFlight
  /\ Cardinality(DOMAIN editor.awaits) = 1
  /\ Cardinality(runner.alive) = 1

\* C35: the latest code is eventually run. After any requestRun, and given
\* that every runner.run call settles, a run of the code that was the latest
\* at the time of the last request eventually completes and runInFlight
\* returns to false; requests made during a run are coalesced into one
\* further run rather than lost, also when a sample switch stops the runner
\* in the middle of a run.
C35_LatestCodeRuns ==
  \A c \in Codes :
    (editor.requested = c) ~>
      (editor.requested # c \/ (~editor.runInFlight /\ editor.ran = c))

====
